---- MODULE Spec2Model ----
(***************************************************************************)
(* The query resolution engine of the financial chatbot                    *)
(* (src/app/api/chat/route.ts, the revision at lines 1023-2134):           *)
(* expandAcronyms, parseDate, findClosestMatch, getProjectMetrics and      *)
(* answerQuestion, with the JavaScript string operations they use.         *)
(* Texts are TLA+ strings; a row of the dataset is a record with the       *)
(* fields of FinancialRow; numbers are integers.                           *)
(***************************************************************************)
EXTENDS Integers, Sequences, FiniteSets, TLC

VARIABLES
  data,          \* the FinancialRow[] loaded from the project's CSV file
  project,       \* the project label of the request
  question,      \* the text handed to the function under study
  defaultMonth,  \* the month of the request (the period selected by the caller)
  clockYear,     \* String(new Date().getFullYear()) at the time of the call
  vocab,         \* the candidates handed to findClosestMatch
  pc,            \* position of the handler
  locals,        \* the local variables of answerQuestion when it returned
  out            \* the value the handler returned

vars == <<data, project, question, defaultMonth, clockYear, vocab, pc, locals, out>>

\* The JavaScript value undefined / null.
None == "<undefined>"

----------------------------------------------------------------------------
(* JavaScript string operations *)

Char(s, i) == SubSeq(s, i, i)

Min2(a, b) == IF a <= b THEN a ELSE b

IsSpace(c) == c = " "

IsDigit(c) == c \in {"0", "1", "2", "3", "4", "5", "6", "7", "8", "9"}

LowerOf(c) ==
  CASE c = "A" -> "a" [] c = "B" -> "b" [] c = "C" -> "c" [] c = "D" -> "d"
    [] c = "E" -> "e" [] c = "F" -> "f" [] c = "G" -> "g" [] c = "H" -> "h"
    [] c = "I" -> "i" [] c = "J" -> "j" [] c = "K" -> "k" [] c = "L" -> "l"
    [] c = "M" -> "m" [] c = "N" -> "n" [] c = "O" -> "o" [] c = "P" -> "p"
    [] c = "Q" -> "q" [] c = "R" -> "r" [] c = "S" -> "s" [] c = "T" -> "t"
    [] c = "U" -> "u" [] c = "V" -> "v" [] c = "W" -> "w" [] c = "X" -> "x"
    [] c = "Y" -> "y" [] c = "Z" -> "z" [] OTHER -> c

\* \w of a regular expression: letters, digits and the underscore.
IsWordChar(c) ==
  \/ IsDigit(c)
  \/ c = "_"
  \/ LowerOf(c) \in {"a", "b", "c", "d", "e", "f", "g", "h", "i", "j", "k", "l", "m",
                     "n", "o", "p", "q", "r", "s", "t", "u", "v", "w", "x", "y", "z"}

RECURSIVE toLowerCase(_)
toLowerCase(s) ==
  IF s = "" THEN "" ELSE LowerOf(Char(s, 1)) \o toLowerCase(SubSeq(s, 2, Len(s)))

\* s.includes(sub)
Includes(s, sub) ==
  \E i \in 1..(Len(s) - Len(sub) + 1) : SubSeq(s, i, i + Len(sub) - 1) = sub

RECURSIVE TrimStart(_)
TrimStart(s) ==
  IF s # "" /\ IsSpace(Char(s, 1)) THEN TrimStart(SubSeq(s, 2, Len(s))) ELSE s

RECURSIVE TrimEnd(_)
TrimEnd(s) ==
  IF s # "" /\ IsSpace(Char(s, Len(s))) THEN TrimEnd(SubSeq(s, 1, Len(s) - 1)) ELSE s

\* s.trim()
Trim(s) == TrimEnd(TrimStart(s))

\* The first index >= i of s that holds no whitespace (Len(s) + 1 when none).
RECURSIVE SkipSpaces(_, _)
SkipSpaces(s, i) ==
  IF i <= Len(s) /\ IsSpace(Char(s, i)) THEN SkipSpaces(s, i + 1) ELSE i

RECURSIVE SplitFrom(_, _, _, _)
SplitFrom(s, i, cur, acc) ==
  IF i > Len(s) THEN Append(acc, cur)
  ELSE IF IsSpace(Char(s, i)) THEN SplitFrom(s, SkipSpaces(s, i), "", Append(acc, cur))
  ELSE SplitFrom(s, i + 1, cur \o Char(s, i), acc)

\* s.split(/\s+/): a leading or trailing run of whitespace leaves an empty word.
SplitWs(s) == SplitFrom(s, 1, "", <<>>)

\* s.split(/\s+/).filter(w => w.length > 0)
SelectNonEmpty(ws) == SelectSeq(ws, LAMBDA w : w # "")

Words(s) == SelectNonEmpty(SplitWs(s))

RECURSIVE Join(_, _)
Join(ws, sep) ==
  IF ws = <<>> THEN ""
  ELSE IF Len(ws) = 1 THEN ws[1]
  ELSE ws[1] \o sep \o Join(Tail(ws), sep)

\* s.replace(/\s+/g, '')
RECURSIVE RemoveSpaces(_)
RemoveSpaces(s) ==
  IF s = "" THEN ""
  ELSE IF IsSpace(Char(s, 1)) THEN RemoveSpaces(SubSeq(s, 2, Len(s)))
  ELSE Char(s, 1) \o RemoveSpaces(SubSeq(s, 2, Len(s)))

\* s.split(' ')[0]
RECURSIVE FirstSegment(_)
FirstSegment(s) ==
  IF s = "" \/ Char(s, 1) = " " THEN ""
  ELSE Char(s, 1) \o FirstSegment(SubSeq(s, 2, Len(s)))

\* arr.includes(x)
SeqIncludes(ws, x) == \E i \in 1..Len(ws) : ws[i] = x

----------------------------------------------------------------------------
(* expandAcronyms *)

ACRONYM_MAP ==
  ("gp" :> "gross profit") @@ ("np" :> "net profit") @@
  ("wip" :> "audit report (wip)") @@ ("subcon" :> "subcontractor") @@
  ("sub" :> "subcontractor") @@ ("subcontractor" :> "subcontractor") @@
  ("projected" :> "projection") @@ ("rebar" :> "reinforcement") @@
  ("staff" :> "manpower (mgt. & supervision)") @@
  ("labour" :> "manpower (labour)") @@ ("labor" :> "manpower (labour)") @@
  ("cashflow" :> "cash flow") @@ ("cash" :> "cash flow") @@
  ("prelim" :> "preliminaries") @@ ("preliminary" :> "preliminaries") @@
  ("material" :> "materials") @@ ("plant" :> "plant and machinery") @@
  ("machinery" :> "plant and machinery") @@ ("lab" :> "labour")

\* The outcome of a call that throws
Raised == "<TypeError>"

\* A value read from the table: a string, or an object, with the text that
\* String() makes of it
StrVal(t) == [type |-> "string", val |-> t]

ObjVal(t) == [type |-> "object", val |-> t]

\* The lower-case property names every object inherits from Object.prototype
\* (the words are lower-cased before the lookup), with their values
ObjectPrototype ==
  ("constructor" :> ObjVal("function Object() { [native code] }")) @@
  ("__proto__" :> ObjVal("[object Object]"))

\* ACRONYM_MAP[word] || word: own keys first, then the prototype chain; every
\* value of the table and every inherited value is truthy
ExpandWord(word) ==
  IF word \in DOMAIN ACRONYM_MAP THEN StrVal(ACRONYM_MAP[word])
  ELSE IF word \in DOMAIN ObjectPrototype THEN ObjectPrototype[word]
  ELSE StrVal(word)

RECURSIVE MapExpand(_)
MapExpand(ws) ==
  IF ws = <<>> THEN <<>> ELSE <<ExpandWord(ws[1])>> \o MapExpand(Tail(ws))

\* A conversion to string that accepts strings only
ToStringStrict(v) == IF v.type = "string" THEN v.val ELSE Raised

\* The conversion join() applies to each element: String(v)
StringOf(v) == v.val

\* .join(' '); a conversion that throws ends the call
JoinValues(vs, sep) ==
  LET parts == [i \in 1..Len(vs) |-> StringOf(vs[i])]
  IN  IF SeqIncludes(parts, Raised) THEN Raised ELSE Join(parts, sep)

expandAcronyms(text) == JoinValues(MapExpand(SplitWs(toLowerCase(text))), " ")

----------------------------------------------------------------------------
(* Calling expandAcronyms on a text and again on its result *)

\* Words a question may hold: every key of the table and some other words.
ExpandWords == (DOMAIN ACRONYM_MAP) \cup {"GP", "what", "flow", "(wip)", "materials"}

\* The longest text, in words.
MaxExpandWords == 2

RECURSIVE TextsOf(_, _)
TextsOf(ws, n) ==
  IF n = 0 THEN {""}
  ELSE LET shorter == TextsOf(ws, n - 1)
       IN  shorter \cup {IF t = "" THEN w ELSE t \o " " \o w : t \in shorter, w \in ws}

ExpandTexts == TextsOf(ExpandWords, MaxExpandWords) \cup {" gp", "gp  np", "cash "}

InitExpand ==
  /\ data = <<>>
  /\ project = None
  /\ question \in ExpandTexts
  /\ defaultMonth = None
  /\ clockYear = None
  /\ vocab = <<>>
  /\ pc = "start"
  /\ locals = None
  /\ out = None

ExpandOnce ==
  /\ pc = "start"
  /\ out' = [once |-> expandAcronyms(question), twice |-> None]
  /\ pc' = "once"
  /\ UNCHANGED <<data, project, question, defaultMonth, clockYear, vocab, locals>>

ExpandTwice ==
  /\ pc = "once"
  /\ out' = [out EXCEPT !.twice = expandAcronyms(out.once)]
  /\ pc' = "twice"
  /\ UNCHANGED <<data, project, question, defaultMonth, clockYear, vocab, locals>>

NextExpand == ExpandOnce \/ ExpandTwice

SpecExpand == InitExpand /\ [][NextExpand]_vars

\* C2: expanding an already expanded text changes nothing.
C2_ExpandIdempotent == pc = "twice" => out.twice = out.once

----------------------------------------------------------------------------
(* parseDate *)

monthNames ==
  <<"january", "february", "march", "april", "may", "june", "july", "august",
    "september", "october", "november", "december">>

monthAbbr ==
  <<"jan", "feb", "mar", "apr", "may", "jun", "jul", "aug", "sep", "oct", "nov", "dec">>

DigitVal(c) ==
  CASE c = "0" -> 0 [] c = "1" -> 1 [] c = "2" -> 2 [] c = "3" -> 3 [] c = "4" -> 4
    [] c = "5" -> 5 [] c = "6" -> 6 [] c = "7" -> 7 [] c = "8" -> 8 [] c = "9" -> 9

DigitStr(d) ==
  CASE d = 0 -> "0" [] d = 1 -> "1" [] d = 2 -> "2" [] d = 3 -> "3" [] d = 4 -> "4"
    [] d = 5 -> "5" [] d = 6 -> "6" [] d = 7 -> "7" [] d = 8 -> "8" [] d = 9 -> "9"

\* parseInt of a string of digits
RECURSIVE ParseDigits(_, _)
ParseDigits(s, acc) ==
  IF s = "" THEN acc
  ELSE ParseDigits(SubSeq(s, 2, Len(s)), 10 * acc + DigitVal(Char(s, 1)))

parseInt(s) == ParseDigits(s, 0)

\* String(n) of a natural number
RECURSIVE NatToString(_)
NatToString(n) ==
  IF n < 10 THEN DigitStr(n) ELSE NatToString(n \div 10) \o DigitStr(n % 10)

IsWordAt(s, i) == i >= 1 /\ i <= Len(s) /\ IsWordChar(Char(s, i))

IsDigitAt(s, i) == i >= 1 /\ i <= Len(s) /\ IsDigit(Char(s, i))

\* \b between the characters i and i + 1 of s
BoundaryAfter(s, i) == IsWordAt(s, i) # IsWordAt(s, i + 1)

\* The least member of a non-empty set of numbers
Least(S) == CHOOSE i \in S : \A j \in S : i <= j

\* /\b(20[2-4]\d)\b/ matches at i
YearAt(s, i) ==
  /\ BoundaryAfter(s, i - 1)
  /\ i + 3 <= Len(s)
  /\ Char(s, i) = "2"
  /\ Char(s, i + 1) = "0"
  /\ Char(s, i + 2) \in {"2", "3", "4"}
  /\ IsDigit(Char(s, i + 3))
  /\ BoundaryAfter(s, i + 3)

\* lowerQ.match(/\b(20[2-4]\d)\b/): the group of the leftmost match
yearMatch(s) ==
  LET at == {i \in 1..Len(s) : YearAt(s, i)}
  IN  IF at = {} THEN None ELSE SubSeq(s, Least(at), Least(at) + 3)

\* /(\d{1,2})\/(\d{2})\b/ matches at i with a first group of n digits
MmyyAt(s, i, n) ==
  /\ \A k \in i..(i + n - 1) : IsDigitAt(s, k)
  /\ i + n <= Len(s)
  /\ Char(s, i + n) = "/"
  /\ IsDigitAt(s, i + n + 1)
  /\ IsDigitAt(s, i + n + 2)
  /\ BoundaryAfter(s, i + n + 2)

\* lowerQ.match(/(\d{1,2})\/(\d{2})\b/): the two groups of the leftmost match,
\* the first group as long as it can be
mmyyMatch(s) ==
  LET at == {i \in 1..Len(s) : MmyyAt(s, i, 1) \/ MmyyAt(s, i, 2)}
  IN  IF at = {} THEN None
      ELSE LET i == Least(at)
               n == IF MmyyAt(s, i, 2) THEN 2 ELSE 1
           IN  <<SubSeq(s, i, i + n - 1), SubSeq(s, i + n + 1, i + n + 2)>>

\* Four digits in a row somewhere in s from index j on
FourDigitsFrom(s, j) ==
  \E k \in j..Len(s) : \A d \in 0..3 : IsDigitAt(s, k + d)

\* /\b(\d{2})\b(?!.*\d{4})/ matches at i
TwoDigitAt(s, i) ==
  /\ BoundaryAfter(s, i - 1)
  /\ IsDigitAt(s, i)
  /\ IsDigitAt(s, i + 1)
  /\ BoundaryAfter(s, i + 1)
  /\ ~FourDigitsFrom(s, i + 2)

\* lowerQ.match(/\b(\d{2})\b(?!.*\d{4})/): the group of the leftmost match
twoDigitYearMatch(s) ==
  LET at == {i \in 1..Len(s) : TwoDigitAt(s, i)}
  IN  IF at = {} THEN None ELSE SubSeq(s, Least(at), Least(at) + 1)

\* The 4-digit-year step: result.year = yearMatch[1]
YearStep(lowerQ, result) ==
  IF yearMatch(lowerQ) # None THEN [result EXCEPT !.year = yearMatch(lowerQ)] ELSE result

\* The M/YY step without its test of yearMatch
MmyyStepIgnoringYear(lowerQ, result) ==
  LET m == mmyyMatch(lowerQ)
  IN  IF m # None /\ parseInt(m[1]) >= 1 /\ parseInt(m[1]) <= 12
      THEN [month |-> NatToString(parseInt(m[1])), year |-> "20" \o m[2]]
      ELSE result

\* The M/YY step, taken when no 4-digit year matched
MmyyStep(lowerQ, result) ==
  LET m == mmyyMatch(lowerQ)
  IN  IF m # None /\ yearMatch(lowerQ) = None
        /\ parseInt(m[1]) >= 1 /\ parseInt(m[1]) <= 12
      THEN [month |-> NatToString(parseInt(m[1])), year |-> "20" \o m[2]]
      ELSE result

\* The 2-digit-year step, taken when no year was found so far
TwoDigitStep(lowerQ, result) ==
  LET t == twoDigitYearMatch(lowerQ)
  IN  IF t # None /\ yearMatch(lowerQ) = None /\ result.year = None
        /\ parseInt(t) >= 20 /\ parseInt(t) <= 30
      THEN [result EXCEPT !.year = "20" \o t]
      ELSE result

\* The month-name loop: the first month, in calendar order, whose name or
\* abbreviation the text holds
MonthNameStep(lowerQ, result) ==
  LET hit == {i \in 1..12 : Includes(lowerQ, monthNames[i]) \/ Includes(lowerQ, monthAbbr[i])}
  IN  IF hit = {} THEN result
      ELSE LET monthNum == NatToString(Least(hit))
           IN  IF Len(monthNum) = 1
                  \/ (Len(monthNum) = 2 /\ monthNum \notin {"20", "21", "22", "23"})
               THEN [result EXCEPT !.month = monthNum]
               ELSE result

\* if (!result.month) result.month = defaultMonth
DefaultMonthStep(result, default) ==
  IF result.month = None \/ result.month = "" THEN [result EXCEPT !.month = default]
  ELSE result

parseDate(q, default) ==
  LET lowerQ == toLowerCase(q)
      r1 == YearStep(lowerQ, [month |-> None, year |-> None])
      r2 == MmyyStep(lowerQ, r1)
      r3 == TwoDigitStep(lowerQ, r2)
      r4 == MonthNameStep(lowerQ, r3)
  IN  DefaultMonthStep(r4, default)

----------------------------------------------------------------------------
(* Calling parseDate on a text *)

DateTokens ==
  {"march", "2025", "2/25", "25", "13/25", "2019", "26", "2/26", "2026", "12/30", "in",
   "jan"}

\* The longest text, in tokens.
MaxDateTokens == 2

DateTexts == TextsOf(DateTokens, MaxDateTokens) \cup {"March 2025", "02/25", "gp 2/25 jan"}

InitDate ==
  /\ data = <<>>
  /\ project = None
  /\ question \in DateTexts
  /\ defaultMonth = "6"
  /\ clockYear = None
  /\ vocab = <<>>
  /\ pc = "start"
  /\ locals = None
  /\ out = None

ParseDate ==
  /\ pc = "start"
  /\ out' = parseDate(question, defaultMonth)
  /\ pc' = "parsed"
  /\ UNCHANGED <<data, project, question, defaultMonth, clockYear, vocab, locals>>

NextDate == ParseDate

SpecDate == InitDate /\ [][NextDate]_vars

\* A month name or abbreviation occurs in the text.
HasMonthName(lowerQ) ==
  \E i \in 1..12 : Includes(lowerQ, monthNames[i]) \/ Includes(lowerQ, monthAbbr[i])

----------------------------------------------------------------------------
(* findClosestMatch *)

\* let bestDistance = Infinity
Infinity == 1000000

Abs(n) == IF n < 0 THEN 0 - n ELSE n

Min3(a, b, c) == Min2(a, Min2(b, c))

\* One row of the matrix: row i of character bc of b, from the row before it.
\* (The rows are bound variables so that each is computed before the next.)
RECURSIVE LevRow(_, _, _, _, _)
LevRow(a, bc, prev, j, cur) ==
  IF j > Len(a) THEN cur
  ELSE LET cell == IF bc = Char(a, j) THEN prev[j]
                   ELSE Min3(prev[j] + 1, cur[j] + 1, prev[j + 1] + 1)
       IN  CHOOSE r \in {LevRow(a, bc, prev, j + 1, next) : next \in {Append(cur, cell)}} : TRUE

RECURSIVE LevRows(_, _, _, _)
LevRows(a, b, i, prev) ==
  IF i > Len(b) THEN prev[Len(a) + 1]
  ELSE CHOOSE d \in {LevRows(a, b, i + 1, row) :
                       row \in {LevRow(a, Char(b, i), prev, 1, <<i>>)}} : TRUE

levenshteinDistance(a, b) == LevRows(a, b, 1, [j \in 1..(Len(a) + 1) |-> j - 1])

\* The distinct characters of s other than the space
CharSet(s) == {Char(s, i) : i \in {k \in 1..Len(s) : Char(s, k) # " "}}

\* similarity >= 0.6, on the distinct characters of the two strings
SimilarEnough(normalizedInput, normalizedCand) ==
  LET inputChars == CharSet(normalizedInput)
      candChars == CharSet(normalizedCand)
      sharedChars == Cardinality(inputChars \cap candChars)
      totalChars == Cardinality(inputChars) + Cardinality(candChars) - sharedChars
  IN  totalChars > 0 /\ 10 * sharedChars >= 6 * totalChars

\* isWordMatch: the input is a word of the candidate, or a part of one that
\* is at least half of it
IsWordMatch(normalizedInput, normalizedCand) ==
  LET candWords == SplitWs(normalizedCand)
  IN  \E i \in 1..Len(candWords) :
        \/ candWords[i] = normalizedInput
        \/ /\ Includes(candWords[i], normalizedInput)
           /\ 2 * Len(normalizedInput) >= Len(candWords[i])

\* The loop over the candidates from index i on; best = <<bestMatch, bestDistance>>
RECURSIVE MatchLoop(_, _, _, _)
MatchLoop(normalizedInput, candidates, i, best) ==
  IF i > Len(candidates)
  THEN IF best[1] # None /\ 2 * best[2] <= Len(normalizedInput) THEN best[1] ELSE None
  ELSE LET candidate == candidates[i]
           normalizedCand == Trim(toLowerCase(candidate))
       IN  IF normalizedInput = normalizedCand THEN candidate
           ELSE IF IsWordMatch(normalizedInput, normalizedCand)
           THEN LET distance == Abs(Len(normalizedCand) - Len(normalizedInput))
                IN  MatchLoop(normalizedInput, candidates, i + 1,
                              IF distance < best[2] THEN <<candidate, distance>> ELSE best)
           ELSE IF ~SimilarEnough(normalizedInput, normalizedCand)
           THEN MatchLoop(normalizedInput, candidates, i + 1, best)
           ELSE LET distance == levenshteinDistance(normalizedInput, normalizedCand)
                IN  MatchLoop(normalizedInput, candidates, i + 1,
                              IF distance < best[2] THEN <<candidate, distance>> ELSE best)

\* findClosestMatch comparing the input as typed, not lower-cased
findClosestMatchCaseSensitive(input, candidates) ==
  IF input = "" \/ input = None \/ Len(candidates) = 0 THEN None
  ELSE MatchLoop(Trim(input), candidates, 1, <<None, Infinity>>)

findClosestMatch(input, candidates) ==
  IF input = "" \/ input = None \/ Len(candidates) = 0 THEN None
  ELSE MatchLoop(Trim(toLowerCase(input)), candidates, 1, <<None, Infinity>>)

----------------------------------------------------------------------------
(* Calling findClosestMatch on a token and a vocabulary *)

MatchTokens == {"profit", "GP", "gros", "projected", "nett"}

\* Values of a column of the dataset: trimmed by the loader, never empty.
VocabPool ==
  {"Gross Profit", "Profit", "profits", "gp", "Net Profit", "Projection", "Net", "Nett Profit"}

\* The most entries of a vocabulary.
MaxVocab == 2

\* The sequences of at most n distinct members of S
RECURSIVE DistinctSeqs(_, _)
DistinctSeqs(S, n) ==
  IF n = 0 THEN {<<>>}
  ELSE LET shorter == DistinctSeqs(S, n - 1)
           longest == {w \in shorter : Len(w) = n - 1}
           Fresh(w) == {e \in S : \A k \in 1..Len(w) : w[k] # e}
       IN  shorter \cup UNION {{Append(w, e) : e \in Fresh(w)} : w \in longest}

InitMatch ==
  /\ data = <<>>
  /\ project = None
  /\ question \in MatchTokens
  /\ defaultMonth = None
  /\ clockYear = None
  /\ vocab \in DistinctSeqs(VocabPool, MaxVocab)
  /\ pc = "start"
  /\ locals = None
  /\ out = None

FindClosest ==
  /\ pc = "start"
  /\ out' = findClosestMatch(question, vocab)
  /\ pc' = "matched"
  /\ UNCHANGED <<data, project, question, defaultMonth, clockYear, vocab, locals>>

NextMatch == FindClosest

SpecMatch == InitMatch /\ [][NextMatch]_vars

\* C6: a token that equals a vocabulary entry up to letter case is answered
\* with an entry that equals it up to letter case, wherever that entry stands.
C6_ExactMatchReturned ==
  (/\ pc = "matched"
   /\ question # ""
   /\ \E i \in 1..Len(vocab) : toLowerCase(vocab[i]) = toLowerCase(question))
  => /\ out # None
     /\ \E i \in 1..Len(vocab) : vocab[i] = out
     /\ toLowerCase(out) = toLowerCase(question)

\* C6 witness: the exact entry stands after an entry that matches at word level.
C6_Witness ==
  /\ pc = "matched"
  /\ question = "profit"
  /\ vocab = <<"profits", "Profit">>
  /\ out = "Profit"

----------------------------------------------------------------------------
(* The dataset *)

\* Value: number | string. A number is an integer here.
Num(n) == [type |-> "number", val |-> n]

Str(t) == [type |-> "string", val |-> t]

\* A FinancialRow as loadProjectData builds it from a line of the CSV file
Row(year, month, sheet, finType, itemCode, dataType, value, label) ==
  [Year |-> year, Month |-> month, Sheet_Name |-> sheet, Financial_Type |-> finType,
   Data_Type |-> dataType, Item_Code |-> itemCode, Value |-> value, _project |-> label]

\* parseFloat of a string, for whole numbers: an optional sign and the leading
\* digits; NaN (no digit) is None
RECURSIVE LeadingDigits(_)
LeadingDigits(s) ==
  IF s # "" /\ IsDigit(Char(s, 1)) THEN Char(s, 1) \o LeadingDigits(SubSeq(s, 2, Len(s)))
  ELSE ""

parseFloat(s) ==
  LET t == TrimStart(s)
      neg == t # "" /\ Char(t, 1) = "-"
      body == IF t # "" /\ Char(t, 1) \in {"-", "+"} THEN SubSeq(t, 2, Len(t)) ELSE t
      digits == LeadingDigits(body)
  IN  IF digits = "" THEN None
      ELSE IF neg THEN 0 - parseInt(digits) ELSE parseInt(digits)

\* toNumber: a number as it is, a string through parseFloat(val) || 0
toNumber(value) ==
  IF value.type = "number" THEN value.val
  ELSE IF LeadingDigits(IF TrimStart(value.val) # "" /\ Char(TrimStart(value.val), 1) \in {"-", "+"}
                        THEN SubSeq(TrimStart(value.val), 2, Len(TrimStart(value.val)))
                        ELSE TrimStart(value.val)) = ""
       THEN 0
       ELSE parseFloat(value.val)

\* String(row.Value)
ValueToString(value) ==
  IF value.type = "string" THEN value.val
  ELSE IF value.val < 0 THEN "-" \o NatToString(0 - value.val) ELSE NatToString(value.val)

\* The rows, whatever their project
ProjectDataAnyLabel(rows, label) == rows

\* data.filter(d => d._project === project)
ProjectData(rows, label) == SelectSeq(rows, LAMBDA d : d._project = label)

\* rows.reduce((sum, d) => sum + toNumber(d.Value), 0)
RECURSIVE SumValues(_)
SumValues(rows) ==
  IF rows = <<>> THEN 0 ELSE toNumber(rows[1].Value) + SumValues(Tail(rows))

----------------------------------------------------------------------------
(* getProjectMetrics *)

gpFilter(d) == d.Item_Code = "3" /\ Includes(toLowerCase(d.Data_Type), "gross profit")

\* A money metric that forgets the sheet
MoneyMetricAnySheet(projectData, phrase) ==
  SumValues(SelectSeq(projectData, LAMBDA d :
    /\ Includes(toLowerCase(d.Financial_Type), phrase)
    /\ gpFilter(d)))

\* One money metric: projectData.filter(...).reduce(...)
MoneyMetric(projectData, phrase) ==
  SumValues(SelectSeq(projectData, LAMBDA d :
    /\ d.Sheet_Name = "Financial Status"
    /\ Includes(toLowerCase(d.Financial_Type), phrase)
    /\ gpFilter(d)))

getProjectInfoValue(projectInfo, dataType) ==
  LET rows == SelectSeq(projectInfo, LAMBDA d : d.Data_Type = dataType)
      val == IF rows = <<>> THEN "" ELSE ValueToString(rows[1].Value)
  IN  IF val # "" /\ val # "Nil" THEN val ELSE "N/A"

getProjectMetrics(rows, label) ==
  LET projectData == ProjectData(rows, label)
      projectInfo == SelectSeq(projectData, LAMBDA d : d.Financial_Type = "General")
  IN  IF Len(projectData) = 0
      THEN ("Business Plan GP" :> 0) @@ ("Projected GP" :> 0) @@ ("WIP GP" :> 0) @@
           ("Cash Flow" :> 0) @@ ("Start Date" :> "N/A") @@ ("Complete Date" :> "N/A") @@
           ("Target Complete Date" :> "N/A") @@ ("Time Consumed (%)" :> "N/A") @@
           ("Target Completed (%)" :> "N/A")
      ELSE ("Business Plan GP" :> MoneyMetric(projectData, "business plan")) @@
           ("Projected GP" :> MoneyMetric(projectData, "projection")) @@
           ("WIP GP" :> MoneyMetric(projectData, "audit report")) @@
           ("Cash Flow" :> MoneyMetric(projectData, "cash flow")) @@
           ("Start Date" :> getProjectInfoValue(projectInfo, "Start Date")) @@
           ("Complete Date" :> getProjectInfoValue(projectInfo, "Complete Date")) @@
           ("Target Complete Date" :> getProjectInfoValue(projectInfo, "Target Complete Date")) @@
           ("Time Consumed (%)" :> getProjectInfoValue(projectInfo, "Time Consumed (%)")) @@
           ("Target Completed (%)" :> getProjectInfoValue(projectInfo, "Target Completed (%)"))

----------------------------------------------------------------------------
(* Loading a file and asking for the metrics *)

TheProject == "1001 - Tower"

OtherProject == "2002 - Bridge"

MetricsPool ==
  {Row("2025", "3", "Financial Status", "Business Plan", "3", "Gross Profit", Num(100), TheProject),
   Row("2025", "3", "Financial Status", "Projection as at", "3", "Gross Profit", Num(250), TheProject),
   Row("2025", "3", "Financial Status", "Audit Report (WIP)", "3", "Acc. Gross Profit", Num(0 - 40), TheProject),
   Row("2025", "3", "Financial Status", "Cash Flow", "3", "Gross Profit", Num(7), TheProject),
   Row("2025", "3", "Projection", "Business Plan", "3", "Gross Profit", Num(9), TheProject),
   Row("2025", "3", "Financial Status", "Business Plan", "3.1", "Gross Profit", Num(11), TheProject),
   Row("2025", "3", "Financial Status", "Revised Business Plan", "3", "Net Profit", Num(13), TheProject),
   Row("2025", "3", "Financial Status", "Business Plan", "3", "Gross Profit", Num(1000), OtherProject),
   Row("2025", "3", "Financial Status", "General", "", "Start Date", Str("2024-01-15"), TheProject)}

\* The most rows of a file.
MaxMetricsRows == 3

InitMetrics ==
  /\ data = <<>>
  /\ project = TheProject
  /\ question = None
  /\ defaultMonth = "3"
  /\ clockYear = None
  /\ vocab = <<>>
  /\ pc = "loading"
  /\ locals = None
  /\ out = None

\* loadProjectData: data.push(row), once per line of the file
LoadMetricsRow ==
  /\ pc = "loading"
  /\ Len(data) < MaxMetricsRows
  /\ \E r \in MetricsPool : data' = Append(data, r)
  /\ UNCHANGED <<project, question, defaultMonth, clockYear, vocab, pc, locals, out>>

\* POST, action 'metrics'
Metrics ==
  /\ pc = "loading"
  /\ out' = getProjectMetrics(data, project)
  /\ pc' = "done"
  /\ UNCHANGED <<data, project, question, defaultMonth, clockYear, vocab, locals>>

NextMetrics == LoadMetricsRow \/ Metrics

SpecMetrics == InitMetrics /\ [][NextMetrics]_vars

\* The sum of the values of the rows of the project that are gross-profit
\* lines of the Financial Status sheet with the phrase in the financial type
RECURSIVE GpLineSum(_, _, _, _)
GpLineSum(rows, label, phrase, i) ==
  IF i > Len(rows) THEN 0
  ELSE (IF /\ rows[i]._project = label
           /\ rows[i].Sheet_Name = "Financial Status"
           /\ rows[i].Item_Code = "3"
           /\ Includes(toLowerCase(rows[i].Data_Type), "gross profit")
           /\ Includes(toLowerCase(rows[i].Financial_Type), phrase)
        THEN rows[i].Value.val ELSE 0) + GpLineSum(rows, label, phrase, i + 1)

\* C7: each money metric is the sum over exactly the gross-profit lines
\* (item code "3", data type containing "gross profit") of the Financial
\* Status sheet whose financial type contains its phrase, 0 when there is
\* none; the single Business Plan row of 100 gives 100, 0, 0, 0.
C7_MoneyMetrics ==
  pc = "done" =>
    /\ out["Business Plan GP"] = GpLineSum(data, project, "business plan", 1)
    /\ out["Projected GP"] = GpLineSum(data, project, "projection", 1)
    /\ out["WIP GP"] = GpLineSum(data, project, "audit report", 1)
    /\ out["Cash Flow"] = GpLineSum(data, project, "cash flow", 1)
    /\ (Len(data) = 1 /\ data[1].Financial_Type = "Business Plan"
          /\ data[1].Sheet_Name = "Financial Status" /\ data[1].Item_Code = "3"
          /\ data[1].Value = Num(100) /\ data[1]._project = project)
       => (out["Business Plan GP"] = 100 /\ out["Projected GP"] = 0 /\ out["WIP GP"] = 0 /\ out["Cash Flow"] = 0)

\* C7 witness: a gross-profit line is summed while the rows of another sheet,
\* another item code and another project are left out.
C7_Witness ==
  /\ pc = "done"
  /\ Len(data) = 3
  /\ \E i \in 1..3 : data[i].Sheet_Name = "Projection"
  /\ \E i \in 1..3 : data[i]._project = OtherProject
  /\ out["Business Plan GP"] = 100
  /\ out["Projected GP"] = 0

----------------------------------------------------------------------------
(* answerQuestion: the attributes inferred from the question *)

\* The members of a sequence in the order of their first occurrence
RECURSIVE DedupFrom(_, _, _)
DedupFrom(ws, i, acc) ==
  IF i > Len(ws) THEN acc
  ELSE DedupFrom(ws, i + 1, IF SeqIncludes(acc, ws[i]) THEN acc ELSE Append(acc, ws[i]))

\* Array.from(new Set(ws))
Dedup(ws) == DedupFrom(ws, 1, <<>>)

\* The values of a text column of the project's rows, empty ones left out
RECURSIVE ColumnFrom(_, _, _)
ColumnFrom(rows, field, i) ==
  IF i > Len(rows) THEN <<>>
  ELSE (IF rows[i][field] # "" THEN <<rows[i][field]>> ELSE <<>>) \o ColumnFrom(rows, field, i + 1)

getUniqueValues(rows, label, field) == Dedup(ColumnFrom(ProjectData(rows, label), field, 1))

\* The index of the first member of a sequence that satisfies Test, 0 when none
FirstIndex(ws, Test(_)) ==
  LET hit == {i \in 1..Len(ws) : Test(ws[i])}
  IN  IF hit = {} THEN 0 ELSE Least(hit)

\* userSpecifiedYear || userSpecifiedMonth
hasUserDate(parsedDate, default, now) ==
  \/ parsedDate.year # None /\ parsedDate.year # "" /\ parsedDate.year # now
  \/ parsedDate.month # None /\ parsedDate.month # "" /\ parsedDate.month # default

\* The question names the sheet: without its spaces, or by its first word
SheetMentioned(expandedQuestion, sheet) ==
  LET sheetLower == toLowerCase(sheet)
  IN  \/ Includes(expandedQuestion, RemoveSpaces(sheetLower))
      \/ Includes(expandedQuestion, FirstSegment(sheetLower))

sheetKeywords ==
  <<<<"cashflow", "Cash Flow">>, <<"cash flow", "Cash Flow">>,
    <<"projection", "Projection">>, <<"committed", "Committed Cost">>,
    <<"accrual", "Accrual">>, <<"financial status", "Financial Status">>,
    <<"financial", "Financial Status">>>>

\* The keyword matches s from index i on, a space of the keyword standing for
\* \s+: the index after the match, 0 when there is none
RECURSIVE KeywordEnd(_, _, _, _)
KeywordEnd(s, i, keyword, k) ==
  IF k > Len(keyword) THEN i
  ELSE IF i > Len(s) THEN 0
  ELSE IF Char(keyword, k) = " "
  THEN IF IsSpace(Char(s, i)) THEN KeywordEnd(s, SkipSpaces(s, i), keyword, k + 1) ELSE 0
  ELSE IF LowerOf(Char(s, i)) = Char(keyword, k) THEN KeywordEnd(s, i + 1, keyword, k + 1)
  ELSE 0

\* keywordRegex.test(expandedQuestion)
KeywordTest(keyword, s) ==
  \E i \in 1..Len(s) :
    /\ BoundaryAfter(s, i - 1)
    /\ KeywordEnd(s, i, keyword, 1) # 0
    /\ BoundaryAfter(s, KeywordEnd(s, i, keyword, 1) - 1)

\* sheets.find(s => s && s.trim() && s.trim().toLowerCase() === sheetName.toLowerCase())
FindSheet(sheets, sheetName) ==
  FirstIndex(sheets, LAMBDA sh : Trim(sh) # "" /\ toLowerCase(Trim(sh)) = toLowerCase(sheetName))

\* Step 2: the sheet of the question
inferSheet(expandedQuestion, sheets, userDate) ==
  IF ~userDate THEN "Financial Status"
  ELSE LET named == FirstIndex(sheets, LAMBDA sh : SheetMentioned(expandedQuestion, sh))
           byKeyword == {k \in 1..Len(sheetKeywords) :
                           /\ KeywordTest(sheetKeywords[k][1], expandedQuestion)
                           /\ FindSheet(sheets, sheetKeywords[k][2]) # 0}
       IN  IF named # 0 THEN sheets[named]
           ELSE IF byKeyword # {}
           THEN sheets[FindSheet(sheets, sheetKeywords[Least(byKeyword)][2])]
           ELSE None

\* A word of the question is a word of the value, or a part of one that is at
\* least half of it
WordsMeet(questionWords, valueWords) ==
  \E q \in 1..Len(questionWords), w \in 1..Len(valueWords) :
    \/ questionWords[q] = valueWords[w]
    \/ /\ Includes(valueWords[w], questionWords[q])
       /\ 2 * Len(questionWords[q]) >= Len(valueWords[w])

\* The first non-null findClosestMatch(word, candidates) over the words
RECURSIVE FirstFuzzy(_, _, _)
FirstFuzzy(questionWords, candidates, i) ==
  IF i > Len(questionWords) THEN None
  ELSE IF findClosestMatch(questionWords[i], candidates) # None
  THEN findClosestMatch(questionWords[i], candidates)
  ELSE FirstFuzzy(questionWords, candidates, i + 1)

\* Step 4 with the question words as the outer loop: the type met by the
\* earliest word of the question
inferFinancialTypeByQuestionOrder(questionWords, financialTypes) ==
  LET meets(q, ft) == WordsMeet(<<q>>, Words(toLowerCase(ft)))
      byWord == FirstIndex(questionWords,
                  LAMBDA q : \E k \in 1..Len(financialTypes) : meets(q, financialTypes[k]))
  IN  IF byWord # 0
      THEN financialTypes[FirstIndex(financialTypes,
                                     LAMBDA ft : meets(questionWords[byWord], ft))]
      ELSE FirstFuzzy(questionWords, financialTypes, 1)

\* Step 4: the financial type of the question
inferFinancialType(questionWords, financialTypes) ==
  LET byWord == FirstIndex(financialTypes,
                  LAMBDA ft : WordsMeet(questionWords, Words(toLowerCase(ft))))
  IN  IF byWord # 0 THEN financialTypes[byWord]
      ELSE FirstFuzzy(questionWords, financialTypes, 1)

acronymMap ==
  <<<<"np", <<"net profit", "acc. net profit">>>>,
    <<"gp", <<"gross profit", "acc. gross profit">>>>,
    <<"wip", <<"work in progress">>>>,
    <<"cf", <<"cash flow">>>>>>

\* The data type found for one acronym: the first data type that holds the
\* first expansion some data type holds
RECURSIVE ByExpansion(_, _, _)
ByExpansion(expansions, dataTypes, e) ==
  IF e > Len(expansions) THEN None
  ELSE LET match == FirstIndex(dataTypes, LAMBDA dt : Includes(toLowerCase(dt), expansions[e]))
       IN  IF match # 0 THEN dataTypes[match] ELSE ByExpansion(expansions, dataTypes, e + 1)

RECURSIVE ByAcronym(_, _, _)
ByAcronym(questionWords, dataTypes, a) ==
  IF a > Len(acronymMap) THEN None
  ELSE IF SeqIncludes(questionWords, acronymMap[a][1])
          /\ ByExpansion(acronymMap[a][2], dataTypes, 1) # None
  THEN ByExpansion(acronymMap[a][2], dataTypes, 1)
  ELSE ByAcronym(questionWords, dataTypes, a + 1)

\* The first loop of the count: the words of the question that are words of
\* the data type, in question order, repeated words repeated
ExactWords(questionWords, dtWords) ==
  SelectSeq(questionWords, LAMBDA q : SeqIncludes(dtWords, q))

\* longer.includes(shorter) && shorter.length >= longer.length * 0.5
PartialMeet(qWord, dtWord) ==
  LET longer == IF Len(qWord) >= Len(dtWord) THEN qWord ELSE dtWord
      shorter == IF Len(qWord) >= Len(dtWord) THEN dtWord ELSE qWord
  IN  Includes(longer, shorter) /\ 2 * Len(shorter) >= Len(longer)

\* The second loop of the count, from word i on: matchedWords after it
RECURSIVE PartialWords(_, _, _, _)
PartialWords(questionWords, dtWords, i, matchedWords) ==
  IF i > Len(questionWords) THEN matchedWords
  ELSE LET qWord == questionWords[i]
       IN  IF SeqIncludes(matchedWords, qWord) \/ Len(qWord) <= 3
           THEN PartialWords(questionWords, dtWords, i + 1, matchedWords)
           ELSE IF \E w \in 1..Len(dtWords) : PartialMeet(qWord, dtWords[w])
           THEN PartialWords(questionWords, dtWords, i + 1, Append(matchedWords, qWord))
           ELSE PartialWords(questionWords, dtWords, i + 1, matchedWords)

\* matchCount of one data type (matchedWords grows by one with each count)
matchCount(questionWords, dt) ==
  LET dtWords == Words(toLowerCase(dt))
  IN  Len(PartialWords(questionWords, dtWords, 1, ExactWords(questionWords, dtWords)))

\* The loop over the data types from index i on; best = <<targetDataType, count>>
RECURSIVE ByCount(_, _, _, _)
ByCount(questionWords, dataTypes, i, best) ==
  IF i > Len(dataTypes) THEN best[1]
  ELSE LET n == matchCount(questionWords, dataTypes[i])
       IN  ByCount(questionWords, dataTypes, i + 1,
                   IF n > best[2] THEN <<dataTypes[i], n>> ELSE best)

\* Step 5: the data type of the question
inferDataType(questionWords, dataTypes) ==
  IF ByAcronym(questionWords, dataTypes, 1) # None THEN ByAcronym(questionWords, dataTypes, 1)
  ELSE IF ByCount(questionWords, dataTypes, 1, <<None, 0>>) # None
  THEN ByCount(questionWords, dataTypes, 1, <<None, 0>>)
  ELSE FirstFuzzy(questionWords, dataTypes, 1)

----------------------------------------------------------------------------
(* answerQuestion: filters, relaxation, answer and candidates *)

\* if (x): neither undefined nor the empty string
Truthy(x) == x # None /\ x # ""

\* if (target) filtered = filtered.filter(d => d[field] === target)
FilterBy(rows, field, target) ==
  IF Truthy(target) THEN SelectSeq(rows, LAMBDA d : d[field] = target) ELSE rows

\* The filters on sheet, month and year, kept at every step
BaseFiltered(projectData, targetSheet, parsedDate) ==
  FilterBy(FilterBy(FilterBy(projectData, "Sheet_Name", targetSheet),
                    "Month", parsedDate.month),
           "Year", parsedDate.year)

\* The records before any relaxation
StrictFiltered(projectData, targetSheet, parsedDate, targetFinType, targetDataType) ==
  FilterBy(FilterBy(BaseFiltered(projectData, targetSheet, parsedDate),
                    "Financial_Type", targetFinType),
           "Data_Type", targetDataType)

\* "Try without Financial_Type"
WithoutFinType(projectData, targetSheet, parsedDate, targetDataType) ==
  FilterBy(BaseFiltered(projectData, targetSheet, parsedDate), "Data_Type", targetDataType)

\* "Try without Data_Type" that drops the month as well
WithoutDataTypeAnyMonth(projectData, targetSheet, parsedDate) ==
  FilterBy(FilterBy(projectData, "Sheet_Name", targetSheet), "Year", parsedDate.year)

\* "Try without Data_Type"
WithoutDataType(projectData, targetSheet, parsedDate) ==
  BaseFiltered(projectData, targetSheet, parsedDate)

\* How many relaxations were made: 0, 1 or 2
Relaxations(projectData, targetSheet, parsedDate, targetFinType, targetDataType) ==
  IF Len(StrictFiltered(projectData, targetSheet, parsedDate, targetFinType, targetDataType)) # 0
  THEN 0
  ELSE IF Len(WithoutFinType(projectData, targetSheet, parsedDate, targetDataType)) # 0
  THEN 1
  ELSE 2

\* filtered, after relaxations that drop the data type first
FilteredDataTypeFirst(projectData, targetSheet, parsedDate, targetFinType, targetDataType) ==
  LET strict == StrictFiltered(projectData, targetSheet, parsedDate, targetFinType,
                               targetDataType)
      noDataType == FilterBy(BaseFiltered(projectData, targetSheet, parsedDate),
                             "Financial_Type", targetFinType)
  IN  IF Len(strict) # 0 THEN strict
      ELSE IF Len(noDataType) # 0 THEN noDataType
      ELSE WithoutDataType(projectData, targetSheet, parsedDate)

\* filtered, after the relaxations
Filtered(projectData, targetSheet, parsedDate, targetFinType, targetDataType) ==
  LET n == Relaxations(projectData, targetSheet, parsedDate, targetFinType, targetDataType)
  IN  IF n = 0
      THEN StrictFiltered(projectData, targetSheet, parsedDate, targetFinType, targetDataType)
      ELSE IF n = 1
      THEN WithoutFinType(projectData, targetSheet, parsedDate, targetDataType)
      ELSE WithoutDataType(projectData, targetSheet, parsedDate)

\* appliedSheet: targetSheet, and after a relaxation targetSheet || 'Financial Status'
AppliedSheet(targetSheet, relaxations) ==
  IF relaxations = 0 \/ Truthy(targetSheet) THEN targetSheet ELSE "Financial Status"

\* A NoMatch answer that lists the filters left after the relaxations only
NoMatchTextAppliedOnly(appliedSheet, parsedDate, targetFinType, targetDataType) ==
  [kind |-> "No data found matching your query.",
   filters |->
     (IF Truthy(appliedSheet) THEN <<<<"Sheet", appliedSheet>>>> ELSE <<>>) \o
     (IF Truthy(parsedDate.month) THEN <<<<"Month", parsedDate.month>>>> ELSE <<>>) \o
     (IF Truthy(parsedDate.year) THEN <<<<"Year", parsedDate.year>>>> ELSE <<>>)]

\* The text of the NoMatch answer, one pair for each line of "Filters attempted"
NoMatchText(appliedSheet, parsedDate, targetFinType, targetDataType) ==
  [kind |-> "No data found matching your query.",
   filters |->
     (IF Truthy(appliedSheet) THEN <<<<"Sheet", appliedSheet>>>> ELSE <<>>) \o
     (IF Truthy(parsedDate.month) THEN <<<<"Month", parsedDate.month>>>> ELSE <<>>) \o
     (IF Truthy(parsedDate.year) THEN <<<<"Year", parsedDate.year>>>> ELSE <<>>) \o
     (IF Truthy(targetFinType) THEN <<<<"Financial Type", targetFinType>>>> ELSE <<>>) \o
     (IF Truthy(targetDataType) THEN <<<<"Data Type", targetDataType>>>> ELSE <<>>)]

\* The lines under "**Filters:**" of the answer
FiltersSection(appliedSheet, parsedDate, targetFinType, targetDataType, userDate) ==
  (IF Truthy(appliedSheet) THEN <<<<"Sheet", appliedSheet>>>> ELSE <<>>) \o
  (IF Truthy(targetFinType) THEN <<<<"Financial Type", targetFinType>>>> ELSE <<>>) \o
  <<<<"Month", IF userDate /\ Truthy(parsedDate.month) THEN parsedDate.month ELSE "All">>,
    <<"Year", IF userDate /\ Truthy(parsedDate.year) THEN parsedDate.year ELSE "All">>,
    <<"Data Type", IF Truthy(targetDataType) THEN targetDataType ELSE "All">>,
    <<"Item Code", "all">>>>

\* d.Item_Code || 'Unknown'
ItemKey(d) == IF d.Item_Code # "" THEN d.Item_Code ELSE "Unknown"

\* The lines under "**By Item Code:**": the item codes in the order of their
\* first row, each with the total of its rows
RECURSIVE ItemKeys(_, _)
ItemKeys(rows, i) ==
  IF i > Len(rows) THEN <<>> ELSE <<ItemKey(rows[i])>> \o ItemKeys(rows, i + 1)

RECURSIVE ItemLines(_, _, _)
ItemLines(rows, keys, k) ==
  IF k > Len(keys) THEN <<>>
  ELSE <<<<keys[k], SumValues(SelectSeq(rows, LAMBDA d : ItemKey(d) = keys[k]))>>>> \o
       ItemLines(rows, keys, k + 1)

ByItemCode(rows) == ItemLines(rows, Dedup(ItemKeys(rows, 1)), 1)

\* The four fields the words of the question are looked up in, in lower case
LowerFields(d) ==
  [Financial_Type |-> toLowerCase(d.Financial_Type),
   Data_Type |-> toLowerCase(d.Data_Type),
   Item_Code |-> toLowerCase(d.Item_Code),
   Sheet_Name |-> toLowerCase(d.Sheet_Name)]

\* The score a row gets from the words of the question, from word i on
\* (low holds the row's fields in lower case)
RECURSIVE WordScore(_, _, _)
WordScore(low, questionWords, i) ==
  IF i > Len(questionWords) THEN 0
  ELSE (IF Includes(low.Financial_Type, questionWords[i]) THEN 5 ELSE 0) +
       (IF Includes(low.Data_Type, questionWords[i]) THEN 8 ELSE 0) +
       (IF Includes(low.Item_Code, questionWords[i]) THEN 3 ELSE 0) +
       (IF Includes(low.Sheet_Name, questionWords[i]) THEN 2 ELSE 0) +
       WordScore(low, questionWords, i + 1)

\* The words pushed on matchedKeywords by the loop over the question
RECURSIVE WordKeywords(_, _, _)
WordKeywords(low, questionWords, i) ==
  IF i > Len(questionWords) THEN <<>>
  ELSE (IF Includes(low.Financial_Type, questionWords[i])
        THEN <<questionWords[i]>> ELSE <<>>) \o
       (IF Includes(low.Data_Type, questionWords[i])
        THEN <<questionWords[i]>> ELSE <<>>) \o
       (IF Includes(low.Item_Code, questionWords[i])
        THEN <<questionWords[i]>> ELSE <<>>) \o
       (IF Includes(low.Sheet_Name, questionWords[i])
        THEN <<questionWords[i]>> ELSE <<>>) \o
       WordKeywords(low, questionWords, i + 1)

\* +exact if the field equals the target, else +partial if it contains it
\* (lowValue is the field in lower case)
TargetScore(value, lowValue, target, exact, partial) ==
  IF Truthy(target) /\ value = target THEN exact
  ELSE IF Truthy(target) /\ Includes(lowValue, toLowerCase(target)) THEN partial
  ELSE 0

\* The target is pushed on matchedKeywords in the "contains" branch only
TargetKeyword(value, lowValue, target) ==
  IF Truthy(target) /\ value # target /\ Includes(lowValue, toLowerCase(target))
  THEN <<target>> ELSE <<>>

\* A score that counts a repeated word of the question once
matchScoreDistinctWords(d, low, questionWords, targetFinType, targetDataType, parsedDate) ==
  WordScore(low, Dedup(questionWords), 1)
  + TargetScore(d.Financial_Type, low.Financial_Type, targetFinType, 40, 30)
  + TargetScore(d.Data_Type, low.Data_Type, targetDataType, 35, 25)
  + (IF Truthy(parsedDate.month) /\ d.Month = parsedDate.month THEN 20 ELSE 0)
  + (IF Truthy(parsedDate.year) /\ d.Year = parsedDate.year THEN 15 ELSE 0)
  + (IF d.Item_Code \in {"3", "1", "2"} THEN 5 ELSE 0)
  + (IF d.Sheet_Name = "Financial Status" THEN 2 ELSE 0)

matchScore(d, low, questionWords, targetFinType, targetDataType, parsedDate) ==
  WordScore(low, questionWords, 1)
  + TargetScore(d.Financial_Type, low.Financial_Type, targetFinType, 40, 30)
  + TargetScore(d.Data_Type, low.Data_Type, targetDataType, 35, 25)
  + (IF Truthy(parsedDate.month) /\ d.Month = parsedDate.month THEN 20 ELSE 0)
  + (IF Truthy(parsedDate.year) /\ d.Year = parsedDate.year THEN 15 ELSE 0)
  + (IF d.Item_Code \in {"3", "1", "2"} THEN 5 ELSE 0)
  + (IF d.Sheet_Name = "Financial Status" THEN 2 ELSE 0)

matchedKeywords(d, low, questionWords, targetFinType, targetDataType) ==
  Dedup(WordKeywords(low, questionWords, 1)
        \o TargetKeyword(d.Financial_Type, low.Financial_Type, targetFinType)
        \o TargetKeyword(d.Data_Type, low.Data_Type, targetDataType))

\* One element of allCandidates, before the sort
Candidate(d, questionWords, targetFinType, targetDataType, parsedDate) ==
  CHOOSE c \in
    {[id |-> 0,
      value |-> d.Value,
      score |-> matchScore(d, low, questionWords, targetFinType, targetDataType, parsedDate),
      sheet |-> d.Sheet_Name,
      financialType |-> d.Financial_Type,
      dataType |-> d.Data_Type,
      itemCode |-> d.Item_Code,
      month |-> d.Month,
      year |-> d.Year,
      matchedKeywords |-> matchedKeywords(d, low, questionWords, targetFinType,
                                          targetDataType)] : low \in {LowerFields(d)}} : TRUE

\* c put into a list sorted by descending score, after the members that score
\* as much (the sort is stable)
RECURSIVE InsertByScore(_, _)
InsertByScore(sorted, c) ==
  IF sorted = <<>> THEN <<c>>
  ELSE IF sorted[1].score >= c.score THEN <<sorted[1]>> \o InsertByScore(Tail(sorted), c)
  ELSE <<c>> \o sorted

\* .sort((a, b) => b.score - a.score)
RECURSIVE SortFrom(_, _, _)
SortFrom(cs, i, sorted) ==
  IF i > Len(cs) THEN sorted ELSE SortFrom(cs, i + 1, InsertByScore(sorted, cs[i]))

\* The candidates in the order of the rows
SortByScoreKeepOrder(cs) == cs

SortByScore(cs) == SortFrom(cs, 1, <<>>)

\* .slice(0, 10)
TopTen(cs) == SubSeq(cs, 1, Min2(Len(cs), 10))

\* candidates that keep the id 0 given before the sort
CandidatesUnnumbered(projectData, questionWords, targetFinType, targetDataType, parsedDate) ==
  LET scored == [i \in 1..Len(projectData) |->
                   Candidate(projectData[i], questionWords, targetFinType, targetDataType,
                             parsedDate)]
  IN  TopTen(SortByScore(scored))

\* candidates: scored, sorted, cut to ten, numbered from 1
Candidates(projectData, questionWords, targetFinType, targetDataType, parsedDate) ==
  LET scored == [i \in 1..Len(projectData) |->
                   Candidate(projectData[i], questionWords, targetFinType, targetDataType,
                             parsedDate)]
      top == TopTen(SortByScore(scored))
  IN  [i \in 1..Len(top) |-> [top[i] EXCEPT !.id = i]]

\* The lines under "**Available Records**", one for each candidate
RecordLines(candidates) ==
  [i \in 1..Len(candidates) |->
     <<candidates[i].id, candidates[i].month, candidates[i].year, candidates[i].sheet,
       candidates[i].financialType, candidates[i].dataType, candidates[i].itemCode,
       toNumber(candidates[i].value), candidates[i].score, candidates[i].matchedKeywords>>]

\* The local variables of answerQuestion when it returns
Locals(rows, label, q, default, now) ==
  LET projectData == ProjectData(rows, label)
      expandedQuestion == toLowerCase(expandAcronyms(q))
      questionWords == Words(expandedQuestion)
      parsedDate == parseDate(expandedQuestion, default)
      userDate == hasUserDate(parsedDate, default, now)
      targetSheet == inferSheet(expandedQuestion, getUniqueValues(rows, label, "Sheet_Name"),
                                userDate)
      targetFinType == inferFinancialType(questionWords,
                                          getUniqueValues(rows, label, "Financial_Type"))
      targetDataType == inferDataType(questionWords,
                                      getUniqueValues(rows, label, "Data_Type"))
      relaxations == Relaxations(projectData, targetSheet, parsedDate, targetFinType,
                                 targetDataType)
  IN  IF Len(projectData) = 0
      THEN [projectData |-> projectData, questionWords |-> questionWords]
      ELSE [projectData |-> projectData,
            questionWords |-> questionWords,
            parsedDate |-> parsedDate,
            hasUserDate |-> userDate,
            targetSheet |-> targetSheet,
            targetFinType |-> targetFinType,
            targetDataType |-> targetDataType,
            relaxations |-> relaxations,
            filtered |-> Filtered(projectData, targetSheet, parsedDate, targetFinType,
                                  targetDataType),
            appliedSheet |-> AppliedSheet(targetSheet, relaxations)]

\* The FuzzyResult answerQuestion returns, from its local variables
Answer(t) ==
  IF Len(t.projectData) = 0
  THEN [text |-> [kind |-> "No data found for this project."], candidates |-> <<>>]
  ELSE IF Len(t.filtered) = 0
  THEN [text |-> NoMatchText(t.appliedSheet, t.parsedDate, t.targetFinType, t.targetDataType),
        candidates |-> <<>>]
  ELSE LET candidates == Candidates(t.projectData, t.questionWords, t.targetFinType,
                                    t.targetDataType, t.parsedDate)
       IN  [text |-> [kind |-> "Query Results",
                      filters |-> FiltersSection(t.appliedSheet, t.parsedDate, t.targetFinType,
                                                 t.targetDataType, t.hasUserDate),
                      total |-> SumValues(t.filtered),
                      byItemCode |-> ByItemCode(t.filtered),
                      records |-> RecordLines(candidates)],
            candidates |-> candidates]

answerQuestion(rows, label, q, default, now) ==
  Answer(CHOOSE t \in {Locals(rows, label, q, default, now)} : TRUE)

----------------------------------------------------------------------------
(* Loading a file and asking a question *)

RowA == Row("2025", "3", "Financial Status", "Projection as at", "3", "Gross Profit", Num(250), TheProject)
RowA1 == Row("2025", "3", "Financial Status", "Projection as at", "1", "Gross Profit", Num(40), TheProject)
RowB == Row("2025", "3", "Financial Status", "Business Plan", "3", "Gross Profit", Num(100), TheProject)
RowC == Row("2025", "3", "Financial Status", "Projection as at", "4", "Net Profit", Num(30), TheProject)
RowD == Row("2025", "1", "Projection", "Projection as at", "3", "Gross Profit", Num(60), TheProject)
RowE == Row("2025", "3", "Financial Status", "Business Plan", "3", "Gross Profit", Num(1000), OtherProject)
RowG == Row("2025", "4", "Financial Status", "Audit Report (WIP)", "3", "Gross Profit", Num(0 - 7), TheProject)

RowH == Row("2024", "1", "Cash Flow", "Business Plan", "4", "Net Profit", Num(5), TheProject)

QueryPool == {RowA, RowA1, RowB, RowC, RowD, RowE, RowG, RowH}

Questions == {"what is the projected gp", "projected gp 2025", "Projected NP jan 2024"}

ClockYears == {"2025", "2026"}

\* The most rows of a file.
MaxRows == 3

Init ==
  /\ data = <<>>
  /\ project = TheProject
  /\ question = None
  /\ defaultMonth = "3"
  /\ clockYear = None
  /\ vocab = <<>>
  /\ pc = "loading"
  /\ locals = None
  /\ out = None

\* loadProjectData: data.push(row), once per line of the file
LoadRow ==
  /\ pc = "loading"
  /\ Len(data) < MaxRows
  /\ \E r \in QueryPool : data' = Append(data, r)
  /\ UNCHANGED <<project, question, defaultMonth, clockYear, vocab, pc, locals, out>>

\* POST, action 'query'
Query ==
  /\ pc = "loading"
  /\ \E q \in Questions, now \in ClockYears :
       /\ question' = q
       /\ clockYear' = now
       /\ \E t \in {Locals(data, project, q, defaultMonth, now)} :
            /\ locals' = t
            /\ out' = Answer(t)
  /\ pc' = "answered"
  /\ UNCHANGED <<data, project, defaultMonth, vocab>>

Next == LoadRow \/ Query

Spec == Init /\ [][Next]_vars

\* The members of a sequence
Range(ws) == {ws[i] : i \in 1..Len(ws)}

\* The rows of the requested project
OwnRows == {i \in 1..Len(data) : data[i]._project = project}

\* A row passes the filters on sheet, month and year of the call
KeepsSheetMonthYear(d) ==
  /\ Truthy(locals.targetSheet) => d.Sheet_Name = locals.targetSheet
  /\ Truthy(locals.parsedDate.month) => d.Month = locals.parsedDate.month
  /\ Truthy(locals.parsedDate.year) => d.Year = locals.parsedDate.year

\* C1: when all the filters match nothing and the filters without the
\* financial type match some record, the filters reported with the answer do
\* not name the financial type, while sheet, month and year are reported and
\* hold for every record of the answer.
C1_RelaxedFinTypeNotReported ==
  (/\ pc = "answered"
   /\ out.text.kind = "Query Results"
   /\ Len(StrictFiltered(locals.projectData, locals.targetSheet, locals.parsedDate,
                         locals.targetFinType, locals.targetDataType)) = 0
   /\ Len(WithoutFinType(locals.projectData, locals.targetSheet, locals.parsedDate,
                         locals.targetDataType)) # 0)
  => /\ \A line \in Range(out.text.filters) : line[1] # "Financial Type"
     /\ Truthy(locals.targetSheet) => <<"Sheet", locals.targetSheet>> \in Range(out.text.filters)
     /\ <<"Month", locals.parsedDate.month>> \in Range(out.text.filters)
     /\ Truthy(locals.parsedDate.year) =>
          <<"Year", locals.parsedDate.year>> \in Range(out.text.filters)
     /\ \A d \in Range(locals.filtered) : KeepsSheetMonthYear(d)

\* C4 as stated: for "what is the projected gp", default month "3" and any
\* dataset that holds the row, the total is 250 and candidate 1 is the row.
C4_ScenarioAnyDataset ==
  (/\ pc = "answered"
   /\ question = "what is the projected gp"
   /\ defaultMonth = "3"
   /\ \E i \in 1..Len(data) : data[i] = RowA)
  => /\ out.text.kind = "Query Results"
     /\ out.text.total = 250
     /\ Len(out.candidates) >= 1
     /\ out.candidates[1] =
          [id |-> 1, value |-> Num(250), score |-> out.candidates[1].score,
           sheet |-> "Financial Status", financialType |-> "Projection as at",
           dataType |-> "Gross Profit", itemCode |-> "3", month |-> "3", year |-> "2025",
           matchedKeywords |-> out.candidates[1].matchedKeywords]

\* C4, amended: for "what is the projected gp", default month "3" and a
\* dataset in which the row is the only record of the project, the total is
\* 250 and candidate 1 is the row.
C4_ScenarioOnlyRow ==
  (/\ pc = "answered"
   /\ question = "what is the projected gp"
   /\ defaultMonth = "3"
   /\ \E i \in 1..Len(data) : data[i] = RowA /\ OwnRows = {i})
  => /\ out.text.kind = "Query Results"
     /\ out.text.total = 250
     /\ Len(out.candidates) = 1
     /\ out.candidates[1] =
          [id |-> 1, value |-> Num(250), score |-> out.candidates[1].score,
           sheet |-> "Financial Status", financialType |-> "Projection as at",
           dataType |-> "Gross Profit", itemCode |-> "3", month |-> "3", year |-> "2025",
           matchedKeywords |-> out.candidates[1].matchedKeywords]

\* C4 witness: the row answers the question in a file that also holds a row
\* of another project.
C4_Witness ==
  /\ pc = "answered"
  /\ question = "what is the projected gp"
  /\ data = <<RowE, RowA>>
  /\ out.text.total = 250
  /\ out.candidates[1].id = 1

\* C8: when the project has rows and none has the sheet, month and year of
\* the question, the answer is the NoMatch message with every filter that was
\* inferred or parsed (sheet, month, year, financial type, data type) and
\* no candidate.
C8_NoMatchListsFilters ==
  (/\ pc = "answered"
   /\ OwnRows # {}
   /\ \A i \in OwnRows : ~KeepsSheetMonthYear(data[i]))
  => /\ out.text.kind = "No data found matching your query."
     /\ out.candidates = <<>>
     /\ Truthy(locals.targetSheet) => <<"Sheet", locals.targetSheet>> \in Range(out.text.filters)
     /\ Truthy(locals.parsedDate.month) =>
          <<"Month", locals.parsedDate.month>> \in Range(out.text.filters)
     /\ Truthy(locals.parsedDate.year) =>
          <<"Year", locals.parsedDate.year>> \in Range(out.text.filters)
     /\ Truthy(locals.targetFinType) =>
          <<"Financial Type", locals.targetFinType>> \in Range(out.text.filters)
     /\ Truthy(locals.targetDataType) =>
          <<"Data Type", locals.targetDataType>> \in Range(out.text.filters)

\* C8 witness: a NoMatch answer that lists all five filters.
C8_Witness ==
  /\ pc = "answered"
  /\ data = <<RowC, RowD>>
  /\ question = "Projected NP jan 2024"
  /\ out.candidates = <<>>
  /\ out.text.filters =
       <<<<"Sheet", "Projection">>, <<"Month", "1">>, <<"Year", "2024">>,
         <<"Financial Type", "Projection as at">>, <<"Data Type", "Net Profit">>>>

\* C9: when no row of the file has the requested project label, the answer
\* is "No data found for this project." with no candidate, whatever the
\* question.
C9_EmptyProject ==
  (pc = "answered" /\ \A i \in 1..Len(data) : data[i]._project # project)
  => out = [text |-> [kind |-> "No data found for this project."], candidates |-> <<>>]

\* C9 witness: the file holds rows, all of another project.
C9_Witness ==
  /\ pc = "answered"
  /\ data = <<RowE, RowE>>
  /\ out.text.kind = "No data found for this project."

\* C10: the records summed in the total, and the records of every step of
\* the relaxation, have the inferred sheet, the parsed month and the parsed
\* year.
C10_SheetMonthYearKept ==
  (pc = "answered" /\ out.text.kind = "Query Results")
  => /\ out.text.total = SumValues(locals.filtered)
     /\ \A d \in Range(locals.filtered) : KeepsSheetMonthYear(d)
     /\ \A d \in Range(StrictFiltered(locals.projectData, locals.targetSheet,
                                      locals.parsedDate, locals.targetFinType,
                                      locals.targetDataType)) : KeepsSheetMonthYear(d)
     /\ \A d \in Range(WithoutFinType(locals.projectData, locals.targetSheet,
                                      locals.parsedDate, locals.targetDataType)) :
          KeepsSheetMonthYear(d)
     /\ \A d \in Range(WithoutDataType(locals.projectData, locals.targetSheet,
                                       locals.parsedDate)) : KeepsSheetMonthYear(d)

\* C10 witness: an answer after both relaxations, with a parsed year, that
\* leaves out a row of the project.
C10_Witness ==
  /\ pc = "answered"
  /\ out.text.kind = "Query Results"
  /\ locals.relaxations = 2
  /\ Truthy(locals.parsedDate.year)
  /\ Len(locals.filtered) < Len(locals.projectData)

\* ---------------------------------------------------------------------------
\* Ranking of more rows than the ten the answer keeps: a file of one project
\* read row by row, then one question.

RankPool == {RowA, RowG}

RankQuestion == "projected gp"

RankClockYear == "2025"

MaxRankRows == 11

InitRank ==
  /\ data = <<>>
  /\ project = TheProject
  /\ question = None
  /\ defaultMonth = "3"
  /\ clockYear = None
  /\ vocab = <<>>
  /\ pc = "loading"
  /\ locals = None
  /\ out = None

RankLoad ==
  /\ pc = "loading"
  /\ Len(data) < MaxRankRows
  /\ \E r \in RankPool : data' = Append(data, r)
  /\ UNCHANGED <<project, question, defaultMonth, clockYear, vocab, pc, locals, out>>

RankQuery ==
  /\ pc = "loading"
  /\ question' = RankQuestion
  /\ clockYear' = RankClockYear
  /\ \E t \in {Locals(data, project, RankQuestion, defaultMonth, RankClockYear)} :
       /\ locals' = t
       /\ out' = Answer(t)
  /\ pc' = "answered"
  /\ UNCHANGED <<data, project, defaultMonth, vocab>>

NextRank == RankLoad \/ RankQuery

SpecRank == InitRank /\ [][NextRank]_vars

\* C3 as stated: the candidates are at most ten, each score is greater than
\* the next one, and the ids are 1..N in that order.
C3_StrictlyDescending ==
  pc = "answered"
  => /\ Len(out.candidates) <= 10
     /\ \A i \in 1..(Len(out.candidates) - 1) :
          out.candidates[i].score > out.candidates[i + 1].score
     /\ \A i \in 1..Len(out.candidates) : out.candidates[i].id = i

\* C3, amended: the candidates are at most ten, no score is less than the
\* next one, and the ids are 1..N in that order.
C3_NonIncreasing ==
  pc = "answered"
  => /\ Len(out.candidates) <= 10
     /\ \A i \in 1..(Len(out.candidates) - 1) :
          out.candidates[i].score >= out.candidates[i + 1].score
     /\ \A i \in 1..Len(out.candidates) : out.candidates[i].id = i

\* C3 witness: eleven rows of two different scores, the lower score first in
\* the file, ten candidates returned.
C3_Witness ==
  /\ pc = "answered"
  /\ Len(data) = 11
  /\ data[1] = RowG
  /\ data[11] = RowA
  /\ Len(out.candidates) = 10
  /\ out.candidates[1].score > out.candidates[10].score

\* ---------------------------------------------------------------------------
\* findClosestMatch: word-level matches against edit-distance matches

\* The entries of the vocabulary that match the token at word level
WordLevelMatches ==
  {vocab[i] : i \in {k \in 1..Len(vocab) :
                       IsWordMatch(Trim(toLowerCase(question)), Trim(toLowerCase(vocab[k])))}}

\* Some entry of the vocabulary equals the token, case and outer spaces apart
ExactEntryExists ==
  \E i \in 1..Len(vocab) : Trim(toLowerCase(vocab[i])) = Trim(toLowerCase(question))

\* C11: when some entry matches the token at word level and none equals it,
\* findClosestMatch returns one of the word-level matches.
C11_WordLevelWins ==
  (pc = "matched" /\ ~ExactEntryExists /\ WordLevelMatches # {})
  => out \in WordLevelMatches

\* C12: the answer depends on the dataset, the project, the question and the
\* default month only: the same call made in any other calendar year returns
\* the same text and the same candidates.
C12_SameAnswerAnyYear ==
  pc = "answered"
  => \A now \in ClockYears :
       answerQuestion(data, project, question, defaultMonth, now) = out

\* ---------------------------------------------------------------------------
\* The four functions on arbitrary question texts: each is called once on a
\* text, a vocabulary and a file read before the call.

HostileTexts ==
  {"", "   ", "2025", "13/99", "?!", "(", "constructor", "__proto__", "a/b 1/2",
   "GP (wip) 2/25"}

TotalVocabs == {<<>>, <<"Gross Profit">>, <<"(WIP)", "Gross Profit">>}

TotalPool == {RowA, RowE}

MaxTotalRows == 2

RECURSIVE FilesOf(_, _)
FilesOf(pool, n) ==
  IF n = 0 THEN {<<>>}
  ELSE LET shorter == FilesOf(pool, n - 1)
       IN  shorter \cup {Append(f, r) : f \in shorter, r \in pool}

InitTotal ==
  /\ data \in FilesOf(TotalPool, MaxTotalRows)
  /\ project = TheProject
  /\ question \in HostileTexts
  /\ defaultMonth = "3"
  /\ clockYear = "2025"
  /\ vocab \in TotalVocabs
  /\ pc = "start"
  /\ locals = None
  /\ out = None

CallExpand ==
  /\ pc = "start"
  /\ out' = expandAcronyms(question)
  /\ pc' = "expanded"
  /\ UNCHANGED <<data, project, question, defaultMonth, clockYear, vocab, locals>>

CallParseDate ==
  /\ pc = "start"
  /\ out' = parseDate(question, defaultMonth)
  /\ pc' = "parsed"
  /\ UNCHANGED <<data, project, question, defaultMonth, clockYear, vocab, locals>>

CallFindClosest ==
  /\ pc = "start"
  /\ out' = findClosestMatch(question, vocab)
  /\ pc' = "matched"
  /\ UNCHANGED <<data, project, question, defaultMonth, clockYear, vocab, locals>>

CallAnswer ==
  /\ pc = "start"
  /\ \E t \in {Locals(data, project, question, defaultMonth, clockYear)} :
       /\ locals' = t
       /\ out' = Answer(t)
  /\ pc' = "answered"
  /\ UNCHANGED <<data, project, question, defaultMonth, clockYear, vocab>>

NextTotal == CallExpand \/ CallParseDate \/ CallFindClosest \/ CallAnswer

SpecTotal == InitTotal /\ [][NextTotal]_vars

RowS ==
  Row("2025", "3", "Financial Status", "General", "", "Start Date", Str("2024-01-15"), TheProject)

FramePool == {RowA, RowC, RowS}

MaxFrameRows == 3

\* The array handed to answerQuestion, after the call. The function reads it
\* with filter and map, which build new arrays; sort and slice work on the
\* array built by map; push adds to the arrays of itemGroups and to
\* matchedKeywords; toNumber returns the number and stores nothing; no
\* statement assigns to data, to an element of it or to a field of a record.
DataAfterAnswer(rows, label, q, default, now) == rows

\* The array handed to getProjectMetrics, after a call whose toNumber stores
\* the number it computed
DataAfterMetricsConverted(rows, label) ==
  [i \in 1..Len(rows) |-> [rows[i] EXCEPT !.Value = Num(toNumber(@))]]

\* The array handed to getProjectMetrics, after the call: filter, reduce and
\* find read it; toNumber and String(row.Value) return new values.
DataAfterMetrics(rows, label) == rows

InitFrame ==
  /\ data \in FilesOf(FramePool, MaxFrameRows)
  /\ project = TheProject
  /\ question = None
  /\ defaultMonth = "3"
  /\ clockYear = None
  /\ vocab = <<>>
  /\ pc = "loaded"
  /\ locals = None
  /\ out = None

FrameAnswer ==
  /\ \E q \in Questions, now \in ClockYears :
       /\ question' = q
       /\ clockYear' = now
       /\ \E t \in {Locals(data, project, q, defaultMonth, now)} :
            /\ locals' = t
            /\ out' = Answer(t)
       /\ data' = DataAfterAnswer(data, project, q, defaultMonth, now)
  /\ pc' = "answered"
  /\ UNCHANGED <<project, defaultMonth, vocab>>

FrameMetrics ==
  /\ out' = getProjectMetrics(data, project)
  /\ data' = DataAfterMetrics(data, project)
  /\ pc' = "metrics"
  /\ UNCHANGED <<project, question, defaultMonth, clockYear, vocab, locals>>

NextFrame == FrameAnswer \/ FrameMetrics

SpecFrame == InitFrame /\ [][NextFrame]_vars

Has(d, field, target) == Truthy(target) => d[field] = target

\* The rows of the project with the sheet, month and year of the call, and
\* with the financial type and the data type when these are asked for
Matching(withFinType, withDataType) ==
  SelectSeq(locals.projectData,
            LAMBDA d : /\ KeepsSheetMonthYear(d)
                       /\ withFinType => Has(d, "Financial_Type", locals.targetFinType)
                       /\ withDataType => Has(d, "Data_Type", locals.targetDataType))

\* The first of the three record sets that is not empty, else the empty one
FirstNonEmpty ==
  IF Matching(TRUE, TRUE) # <<>> THEN Matching(TRUE, TRUE)
  ELSE IF Matching(FALSE, TRUE) # <<>> THEN Matching(FALSE, TRUE)
  ELSE Matching(FALSE, FALSE)

\* C15: the records totalled are the first non-empty set among: all five
\* filters; the same without the financial type; the same without the data
\* type as well. When all three are empty the answer is the NoMatch one.
C15_FirstNonEmptySet ==
  (pc = "answered" /\ OwnRows # {})
  => /\ locals.filtered = FirstNonEmpty
     /\ FirstNonEmpty = <<>> => out.text.kind = "No data found matching your query."
     /\ FirstNonEmpty # <<>> =>
          /\ out.text.kind = "Query Results"
          /\ out.text.total = SumValues(FirstNonEmpty)

\* C15 witness: the first set is empty, the second is not and is the one
\* totalled, and the third holds more records.
C15_Witness ==
  /\ pc = "answered"
  /\ OwnRows # {}
  /\ Matching(TRUE, TRUE) = <<>>
  /\ Matching(FALSE, TRUE) # <<>>
  /\ Len(Matching(FALSE, FALSE)) > Len(Matching(FALSE, TRUE))
  /\ out.text.total = SumValues(Matching(FALSE, TRUE))

\* ---------------------------------------------------------------------------
\* What the answer says about the filters

\* C16: a line "Sheet: X" of the answer or of the NoMatch message means that
\* the sheet X was inferred and applied as a filter: every record of the total
\* is on sheet X.
C16_NamedSheetApplied ==
  (pc = "answered" /\ OwnRows # {})
  => \A line \in Range(out.text.filters) :
       line[1] = "Sheet" =>
         /\ Truthy(locals.targetSheet)
         /\ line[2] = locals.targetSheet
         /\ \A d \in Range(locals.filtered) : d.Sheet_Name = line[2]

\* C17: the answer says "Month: All" only when no month filter was applied,
\* and names the month whenever one was; the same for the year.
C17_AllMeansNoFilter ==
  (pc = "answered" /\ out.text.kind = "Query Results")
  => /\ <<"Month", "All">> \in Range(out.text.filters) => ~Truthy(locals.parsedDate.month)
     /\ Truthy(locals.parsedDate.month) =>
          <<"Month", locals.parsedDate.month>> \in Range(out.text.filters)
     /\ <<"Year", "All">> \in Range(out.text.filters) => ~Truthy(locals.parsedDate.year)
     /\ Truthy(locals.parsedDate.year) =>
          <<"Year", locals.parsedDate.year>> \in Range(out.text.filters)

\* The question as answerQuestion reads it
ExpandedQuestion == toLowerCase(expandAcronyms(question))

\* The question holds a date: parseDate finds a month or a year in it without
\* the help of a default month
QuestionHasDate ==
  \/ Truthy(parseDate(ExpandedQuestion, None).month)
  \/ Truthy(parseDate(ExpandedQuestion, None).year)

\* C18: the sheet is "Financial Status" without a look at the question only
\* when the question holds no date; when it holds one, the sheet is the one
\* sheet detection finds, whatever the default month and the calendar year.
C18_DateMeansDetection ==
  (pc = "answered" /\ OwnRows # {})
  => /\ ~QuestionHasDate => locals.targetSheet = "Financial Status"
     /\ QuestionHasDate =>
          locals.targetSheet =
            inferSheet(ExpandedQuestion, getUniqueValues(data, project, "Sheet_Name"), TRUE)

\* ---------------------------------------------------------------------------
\* matchedKeywords

\* The question word w earns candidate c a bonus: one of the four fields
\* contains it
WordEarns(c, w) ==
  \/ Includes(toLowerCase(c.financialType), w)
  \/ Includes(toLowerCase(c.dataType), w)
  \/ Includes(toLowerCase(c.itemCode), w)
  \/ Includes(toLowerCase(c.sheet), w)

\* The inferred attribute earns a bonus on a field: the field equals it (the
\* exact bonus) or contains it (the partial one)
AttributeEarns(value, target) ==
  Truthy(target) /\ (value = target \/ Includes(toLowerCase(value), toLowerCase(target)))

\* The question words and inferred attributes that earn candidate c a bonus
Contributors(c) ==
  {w \in Range(locals.questionWords) : WordEarns(c, w)}
  \cup (IF AttributeEarns(c.financialType, locals.targetFinType)
        THEN {locals.targetFinType} ELSE {})
  \cup (IF AttributeEarns(c.dataType, locals.targetDataType)
        THEN {locals.targetDataType} ELSE {})

\* C19: the matchedKeywords of every candidate hold no duplicate and are
\* exactly the question words and inferred attributes that earned it a bonus,
\* the attribute of an exact financial-type or data-type bonus included.
C19_KeywordsAreContributors ==
  (pc = "answered" /\ out.text.kind = "Query Results")
  => \A i \in 1..Len(out.candidates) :
       LET c == out.candidates[i]
       IN  /\ \A j, k \in 1..Len(c.matchedKeywords) :
                j # k => c.matchedKeywords[j] # c.matchedKeywords[k]
           /\ Range(c.matchedKeywords) = Contributors(c)

\* ---------------------------------------------------------------------------
\* parseDate: the month

\* The month each rule finds on its own, None when the rule does not fire
MonthByMmyy == MmyyStep(toLowerCase(question), [month |-> None, year |-> None]).month

MonthByName == MonthNameStep(toLowerCase(question), [month |-> None, year |-> None]).month

\* C20: the month is the one of the first rule that finds one: the M/YY rule
\* (taken when there is no 4-digit year), else the month name, else the
\* default month; it is always defined.
C20_MonthFirstMatchWins ==
  pc = "parsed"
  => /\ Truthy(out.month)
     /\ Truthy(MonthByMmyy) => out.month = MonthByMmyy
     /\ (~Truthy(MonthByMmyy) /\ Truthy(MonthByName)) => out.month = MonthByName
     /\ (~Truthy(MonthByMmyy) /\ ~Truthy(MonthByName)) => out.month = defaultMonth

\* Where sub first occurs in s, 0 when it does not
FirstIndexOf(s, sub) ==
  LET at == {i \in 1..(Len(s) - Len(sub) + 1) : SubSeq(s, i, i + Len(sub) - 1) = sub}
  IN  IF at = {} THEN 0 ELSE Least(at)

\* The months named in the text, by full name or abbreviation
MonthsNamed == {i \in 1..12 : Includes(toLowerCase(question), monthAbbr[i])
                              \/ Includes(toLowerCase(question), monthNames[i])}

\* The month whose name or abbreviation stands leftmost in the text (every
\* abbreviation begins its month's name, so the abbreviation locates both)
LeftmostMonth ==
  CHOOSE i \in MonthsNamed :
    \A j \in MonthsNamed :
      FirstIndexOf(toLowerCase(question), monthAbbr[i])
        <= FirstIndexOf(toLowerCase(question), monthAbbr[j])

\* C21: when the text names months, the month returned is the one named
\* leftmost in the text.
C21_LeftmostMonthWins ==
  (pc = "parsed" /\ MonthsNamed # {}) => out.month = NatToString(LeftmostMonth)

\* The 2-digit tokens of the text that are no part of a longer run of digits
\* and lie in 20..30
BareYearTokens ==
  LET s == toLowerCase(question)
      at == {i \in 1..(Len(s) - 1) :
               /\ IsDigitAt(s, i) /\ IsDigitAt(s, i + 1)
               /\ ~IsDigitAt(s, i - 1) /\ ~IsDigitAt(s, i + 2)
               /\ parseInt(SubSeq(s, i, i + 1)) >= 20
               /\ parseInt(SubSeq(s, i, i + 1)) <= 30}
  IN  {SubSeq(s, i, i + 1) : i \in at}

\* C22: without a 4-digit year in 2020..2049 and without a valid M/YY token,
\* a bare 2-digit token in 20..30 gives the year, wherever it stands.
C22_BareYearAnywhere ==
  (/\ pc = "parsed"
   /\ yearMatch(toLowerCase(question)) = None
   /\ ~Truthy(MonthByMmyy)
   /\ BareYearTokens # {})
  => out.year \in {"20" \o t : t \in BareYearTokens}

\* C23: when the token is a word of some entry, or a part of a word that is
\* at least half of it, findClosestMatch returns an entry of the vocabulary.
C23_WordLevelAccepted ==
  (pc = "matched" /\ Trim(toLowerCase(question)) # "" /\ WordLevelMatches # {})
  => out # None /\ SeqIncludes(vocab, out)

\* ---------------------------------------------------------------------------
\* Inference of the financial type: a file of a few financial types, then one
\* question.

RowW ==
  Row("2025", "3", "Financial Status", "General", "5", "Work In Progress", Num(12), TheProject)

InferPool == {RowB, RowC, RowS, RowE, RowW}

InferQuestions == {"projec plan", "generl info", "budget", "wip", "gp profit"}

MaxInferRows == 3

InitInfer ==
  /\ data = <<>>
  /\ project = TheProject
  /\ question = None
  /\ defaultMonth = "3"
  /\ clockYear = None
  /\ vocab = <<>>
  /\ pc = "loading"
  /\ locals = None
  /\ out = None

InferLoad ==
  /\ pc = "loading"
  /\ Len(data) < MaxInferRows
  /\ \E r \in InferPool : data' = Append(data, r)
  /\ UNCHANGED <<project, question, defaultMonth, clockYear, vocab, pc, locals, out>>

InferQuery ==
  /\ pc = "loading"
  /\ \E q \in InferQuestions :
       /\ question' = q
       /\ \E t \in {Locals(data, project, q, defaultMonth, "2025")} :
            /\ locals' = t
            /\ out' = Answer(t)
  /\ clockYear' = "2025"
  /\ pc' = "answered"
  /\ UNCHANGED <<data, project, defaultMonth, vocab>>

NextInfer == InferLoad \/ InferQuery

SpecInfer == InitInfer /\ [][NextInfer]_vars

\* The rows of the project that show a financial type for the first time
FirstOfFinType ==
  {i \in OwnRows : /\ data[i].Financial_Type # ""
                   /\ \A j \in OwnRows : j < i => data[j].Financial_Type # data[i].Financial_Type}

\* A word of the financial type equals a word of the question, or contains
\* one that is at least half of it
TypeQualifies(ft) ==
  \E w \in Range(Words(toLowerCase(ft))), q \in Range(locals.questionWords) :
    w = q \/ (Includes(w, q) /\ 2 * Len(q) >= Len(w))

\* The words of the question for which findClosestMatch finds a financial type
FuzzyHits ==
  {j \in 1..Len(locals.questionWords) :
     findClosestMatch(locals.questionWords[j],
                      getUniqueValues(data, project, "Financial_Type")) # None}

\* C24: the financial type is the first one of the dataset that qualifies by
\* its words; when none does, the first result of findClosestMatch over the
\* words of the question; it is always a financial type of the dataset.
C24_FirstFinTypeInDatasetOrder ==
  (pc = "answered" /\ OwnRows # {})
  => LET qualifying == {i \in FirstOfFinType : TypeQualifies(data[i].Financial_Type)}
     IN  /\ qualifying # {} =>
               locals.targetFinType = data[Least(qualifying)].Financial_Type
         /\ (qualifying = {} /\ FuzzyHits # {}) =>
               locals.targetFinType =
                 findClosestMatch(locals.questionWords[Least(FuzzyHits)],
                                  getUniqueValues(data, project, "Financial_Type"))
         /\ (qualifying = {} /\ FuzzyHits = {}) => locals.targetFinType = None
         /\ Truthy(locals.targetFinType) =>
               \E i \in OwnRows : data[i].Financial_Type = locals.targetFinType

\* C24 witness: two financial types qualify, and the one that comes first in
\* the dataset is taken although its word comes second in the question.
C24_Witness ==
  /\ pc = "answered"
  /\ question = "projec plan"
  /\ data = <<RowB, RowC>>
  /\ locals.targetFinType = "Business Plan"

\* The acronyms of the data-type table that are words of the user's question
AcronymsAsked ==
  {a \in 1..Len(acronymMap) : SeqIncludes(Words(toLowerCase(question)), acronymMap[a][1])}

\* The data type holds one of the phrases the table gives for acronym a
HoldsPhrase(dataType, a) ==
  \E e \in 1..Len(acronymMap[a][2]) : Includes(toLowerCase(dataType), acronymMap[a][2][e])

\* C25: when a word of the user's question is an acronym of the data-type
\* table and the project has a data type that holds one of its phrases, the
\* data type of the question is a data type that holds one of its phrases.
C25_AcronymTableResolves ==
  (pc = "answered" /\ OwnRows # {} /\ AcronymsAsked # {})
  => \A a \in AcronymsAsked :
       (\E i \in OwnRows : HoldsPhrase(data[i].Data_Type, a))
       => /\ Truthy(locals.targetDataType)
          /\ HoldsPhrase(locals.targetDataType, a)

\* How many words of the question (a repeated word counted again) the field
\* contains
TokenHits(field) ==
  Cardinality({j \in 1..Len(locals.questionWords) :
                 Includes(toLowerCase(field), locals.questionWords[j])})

\* The points for the inferred value: exact when the field equals it, else
\* partial when the field contains it whatever the case
InferredPoints(field, target, exact, partial) ==
  IF ~Truthy(target) THEN 0
  ELSE IF field = target THEN exact
  ELSE IF Includes(toLowerCase(field), toLowerCase(target)) THEN partial
  ELSE 0

\* The score the scoring rules give a candidate, from its own fields
ExpectedScore(c) ==
  5 * TokenHits(c.financialType) + 8 * TokenHits(c.dataType)
  + 3 * TokenHits(c.itemCode) + 2 * TokenHits(c.sheet)
  + InferredPoints(c.financialType, locals.targetFinType, 40, 30)
  + InferredPoints(c.dataType, locals.targetDataType, 35, 25)
  + (IF Truthy(locals.parsedDate.month) /\ c.month = locals.parsedDate.month THEN 20 ELSE 0)
  + (IF Truthy(locals.parsedDate.year) /\ c.year = locals.parsedDate.year THEN 15 ELSE 0)
  + (IF c.itemCode \in {"1", "2", "3"} THEN 5 ELSE 0)
  + (IF c.sheet = "Financial Status" THEN 2 ELSE 0)

\* The candidate shows the fields of the row
CandidateOf(c, d) ==
  /\ c.sheet = d.Sheet_Name
  /\ c.financialType = d.Financial_Type
  /\ c.dataType = d.Data_Type
  /\ c.itemCode = d.Item_Code
  /\ c.month = d.Month
  /\ c.year = d.Year
  /\ c.value = d.Value

\* C26: the score of every candidate is the sum the scoring rules give, it is
\* never negative, and every record of the project has its candidate, the
\* records the filters dropped included (the list holds up to ten).
C26_ScoreIsTheSum ==
  (pc = "answered" /\ OwnRows # {} /\ Len(locals.filtered) # 0)
  => /\ \A k \in 1..Len(out.candidates) :
          /\ out.candidates[k].score = ExpectedScore(out.candidates[k])
          /\ out.candidates[k].score >= 0
     /\ Len(out.candidates) = Min2(10, Cardinality(OwnRows))
     /\ Cardinality(OwnRows) <= 10 =>
          \A i \in OwnRows :
            \E k \in 1..Len(out.candidates) : CandidateOf(out.candidates[k], data[i])

\* C26 witness: a word of the question is repeated and counted twice, and a
\* record the filters dropped is a candidate with its score.
C26_Witness ==
  /\ pc = "answered"
  /\ question = "gp profit"
  /\ data = <<RowB, RowS>>
  /\ Len(locals.filtered) = 1
  /\ Len(out.candidates) = 2
  /\ out.candidates[1].score = 86
  /\ out.candidates[2].score = 22
  /\ CandidateOf(out.candidates[2], RowS)

----------------------------------------------------------------------------
(* handleMonthlyCategory *)

\* categoryMap, in the order of its keys
categoryMap ==
  <<<<"plant and machinery", "2.3">>, <<"preliminaries", "2.1">>, <<"materials", "2.2">>,
    <<"plant", "2.3">>, <<"machinery", "2.3">>, <<"labour", "2.4">>, <<"labor", "2.4">>,
    <<"manpower (labour) for works", "2.5">>, <<"manpower (labour)", "2.5">>,
    <<"manpower", "2.5">>, <<"subcontractor", "2.5">>, <<"subcon", "2.5">>,
    <<"staff", "2.6">>, <<"admin", "2.7">>, <<"administration", "2.7">>,
    <<"insurance", "2.8">>, <<"bond", "2.9">>, <<"others", "2.10">>, <<"other", "2.10">>,
    <<"contingency", "2.11">>>>

\* entry put into a list sorted by descending key length, after the entries
\* of the same length (the sort is stable)
RECURSIVE InsertByLength(_, _)
InsertByLength(sorted, entry) ==
  IF sorted = <<>> THEN <<entry>>
  ELSE IF Len(entry[1]) > Len(Head(sorted)[1]) THEN <<entry>> \o sorted
  ELSE <<Head(sorted)>> \o InsertByLength(Tail(sorted), entry)

RECURSIVE SortByLengthFrom(_, _, _)
SortByLengthFrom(entries, i, sorted) ==
  IF i > Len(entries) THEN sorted
  ELSE SortByLengthFrom(entries, i + 1, InsertByLength(sorted, entries[i]))

\* Object.entries(categoryMap).sort((a, b) => b[0].length - a[0].length)
sortedCategories == SortByLengthFrom(categoryMap, 1, <<>>)

\* The text the pattern built from kw matches: in a pattern the parentheses
\* of kw open and close a group and match no character
RECURSIVE PatternText(_)
PatternText(kw) ==
  IF kw = "" THEN ""
  ELSE IF Char(kw, 1) \in {"(", ")"} THEN PatternText(SubSeq(kw, 2, Len(kw)))
  ELSE SubSeq(kw, 1, 1) \o PatternText(SubSeq(kw, 2, Len(kw)))

\* new RegExp(`\\b${kw}\\b`, 'i').test(text), text in lower case
PatternTest(kw, text) ==
  \E lit \in {PatternText(kw)} :
    \E i \in 1..(Len(text) - Len(lit) + 1) :
      /\ SubSeq(text, i, i + Len(lit) - 1) = lit
      /\ BoundaryAfter(text, i - 1)
      /\ BoundaryAfter(text, i + Len(lit) - 1)

\* The first entry of sortedCategories whose pattern matches, 0 when none
categoryIndex(expandedQuestion) ==
  FirstIndex(sortedCategories, LAMBDA entry : PatternTest(entry[1], expandedQuestion))

\* targetMonth: the first month of the calendar the question names, else
\* parseInt(month)
targetMonthOf(expandedQuestion, month) ==
  LET named == {i \in 1..12 : \/ Includes(expandedQuestion, monthNames[i])
                              \/ Includes(expandedQuestion, monthAbbr[i])}
  IN  IF named = {} THEN parseInt(month) ELSE Least(named)

\* d.Item_Code.startsWith(categoryPrefix) alone
InCategoryNoDot(itemCode, categoryPrefix) ==
  /\ Len(itemCode) >= Len(categoryPrefix)
  /\ SubSeq(itemCode, 1, Len(categoryPrefix)) = categoryPrefix

\* d.Item_Code.startsWith(categoryPrefix + '.') || d.Item_Code === categoryPrefix
InCategory(itemCode, categoryPrefix) ==
  \/ /\ Len(itemCode) >= Len(categoryPrefix) + 1
     /\ SubSeq(itemCode, 1, Len(categoryPrefix) + 1) = categoryPrefix \o "."
  \/ itemCode = categoryPrefix

monthlySheets == <<"Projection", "Committed Cost", "Accrual", "Cash Flow">>

\* results[ft]
monthlyTotal(projectData, ft, targetMonth, categoryPrefix) ==
  SumValues(SelectSeq(projectData,
                      LAMBDA d : /\ d.Sheet_Name = ft
                                 /\ d.Month = NatToString(targetMonth)
                                 /\ InCategory(d.Item_Code, categoryPrefix)))

\* The local variables of handleMonthlyCategory when it returns
MonthlyLocals(rows, label, q, month) ==
  LET expandedQuestion == toLowerCase(expandAcronyms(q))
      found == categoryIndex(expandedQuestion)
      projectData == ProjectData(rows, label)
      targetMonth == targetMonthOf(expandedQuestion, month)
  IN  IF ~Includes(expandedQuestion, "monthly") \/ found = 0
      THEN [expandedQuestion |-> expandedQuestion, categoryPrefix |-> ""]
      ELSE [expandedQuestion |-> expandedQuestion,
            categoryPrefix |-> sortedCategories[found][2],
            categoryName |-> sortedCategories[found][1],
            targetMonth |-> targetMonth,
            results |-> [k \in 1..Len(monthlySheets) |->
                           <<monthlySheets[k],
                             monthlyTotal(projectData, monthlySheets[k], targetMonth,
                                          sortedCategories[found][2])>>]]

\* categoryName.charAt(0).toUpperCase() + categoryName.slice(1)
displayName(categoryName) ==
  LET first == CHOOSE c \in {"A", "B", "C", "D", "E", "F", "G", "H", "I", "J", "K", "L", "M",
                             "N", "O", "P", "Q", "R", "S", "T", "U", "V", "W", "X", "Y", "Z"} :
                 LowerOf(c) = Char(categoryName, 1)
  IN  first \o SubSeq(categoryName, 2, Len(categoryName))

\* The response: '' or the heading and one line for each sheet (the amounts
\* are kept as numbers)
MonthlyResponse(t, month) ==
  IF t.categoryPrefix = "" THEN [text |-> ""]
  ELSE [text |-> "## Monthly " \o displayName(t.categoryName) \o " ("
                 \o NatToString(t.targetMonth) \o "/" \o month \o ") ('000)",
        lines |-> t.results]

handleMonthlyCategory(rows, label, q, month) == MonthlyResponse(MonthlyLocals(rows, label, q, month), month)

\* ---------------------------------------------------------------------------
\* handleMonthlyCategory on a file of a few rows and one question

MonthlyRow(sheet, month, itemCode, n, label) ==
  Row("2025", month, sheet, "Monthly", itemCode, "Cost", Num(n), label)

MonthlyPool ==
  {MonthlyRow("Projection", "3", "2.1", 10, TheProject),
   MonthlyRow("Projection", "3", "2.1.3", 5, TheProject),
   MonthlyRow("Projection", "3", "2.10", 7, TheProject),
   MonthlyRow("Projection", "3", "2.11.1", 3, TheProject),
   MonthlyRow("Projection", "4", "2.1", 100, TheProject),
   MonthlyRow("Cash Flow", "3", "2.5.1", 20, TheProject),
   MonthlyRow("Financial Status", "3", "2.1", 40, TheProject),
   MonthlyRow("Projection", "3", "2.1", 1000, OtherProject)}

MonthlyQuestions ==
  {"monthly " \o categoryMap[k][1] : k \in 1..Len(categoryMap)} \cup {"preliminaries in march"}

MonthlyMonths == {"3", "04"}

MaxMonthlyRows == 2

InitMonthly ==
  /\ data = <<>>
  /\ project = TheProject
  /\ question = None
  /\ defaultMonth \in MonthlyMonths
  /\ clockYear = None
  /\ vocab = <<>>
  /\ pc = "loading"
  /\ locals = None
  /\ out = None

MonthlyLoad ==
  /\ pc = "loading"
  /\ Len(data) < MaxMonthlyRows
  /\ \E r \in MonthlyPool : data' = Append(data, r)
  /\ UNCHANGED <<project, question, defaultMonth, clockYear, vocab, pc, locals, out>>

MonthlyQuery ==
  /\ pc = "loading"
  /\ \E q \in MonthlyQuestions :
       /\ question' = q
       /\ \E t \in {MonthlyLocals(data, project, q, defaultMonth)} :
            /\ locals' = t
            /\ out' = MonthlyResponse(t, defaultMonth)
  /\ pc' = "monthly"
  /\ UNCHANGED <<data, project, defaultMonth, clockYear, vocab>>

NextMonthly == MonthlyLoad \/ MonthlyQuery

SpecMonthly == InitMonthly /\ [][NextMonthly]_vars

\* The sum of the values of the rows of data at the indexes of S
RECURSIVE SumAt(_)
SumAt(S) ==
  IF S = {} THEN 0
  ELSE LET i == CHOOSE i \in S : TRUE
       IN  toNumber(data[i].Value) + SumAt(S \ {i})

\* The item code is p, or p and a dot and more
UnderPrefix(code, p) ==
  code = p \/ (Len(code) > Len(p) /\ SubSeq(code, 1, Len(p)) = p /\ Char(code, Len(p) + 1) = ".")

\* The rows of the project of one sheet, the target month and the category
MonthlyMembers(ft) ==
  {i \in OwnRows : /\ data[i].Sheet_Name = ft
                   /\ data[i].Month = NatToString(locals.targetMonth)
                   /\ UnderPrefix(data[i].Item_Code, locals.categoryPrefix)}

\* C27: each total of handleMonthlyCategory is the sum over the rows of the
\* project of that sheet and the target month whose item code is the prefix
\* or the prefix followed by a dot and more; under prefix 2.1 the rows of
\* item code 2.10... and 2.11... count for nothing.
C27_DottedPrefixTotals ==
  (pc = "monthly" /\ locals.categoryPrefix # "")
  => /\ \A k \in 1..Len(monthlySheets) :
          out.lines[k] = <<monthlySheets[k], SumAt(MonthlyMembers(monthlySheets[k]))>>
     /\ locals.categoryPrefix = "2.1" =>
          out.lines =
            handleMonthlyCategory(
              SelectSeq(data, LAMBDA d : /\ ~InCategoryNoDot(d.Item_Code, "2.10")
                                         /\ ~InCategoryNoDot(d.Item_Code, "2.11")),
              project, question, defaultMonth).lines

\* C27 witness: under prefix 2.1 a file holds item codes 2.1.3 and 2.10 of the
\* same sheet and month, and the total is that of 2.1.3 alone.
C27_Witness ==
  /\ pc = "monthly"
  /\ question = "monthly preliminaries"
  /\ defaultMonth = "3"
  /\ data = <<MonthlyRow("Projection", "3", "2.1.3", 5, TheProject),
              MonthlyRow("Projection", "3", "2.10", 7, TheProject)>>
  /\ out.lines[1] = <<"Projection", 5>>

\* C28: for every keyword k of the category table the question "monthly k"
\* is resolved to the prefix the table gives k.
C28_KeywordKeepsItsPrefix ==
  pc = "monthly"
  => \A k \in 1..Len(categoryMap) :
       question = "monthly " \o categoryMap[k][1]
       => locals.categoryPrefix = categoryMap[k][2]

----------------------------------------------------------------------------
(* The label of a project: the listing, the chat page, loadProjectData *)

\* s.replace(sub, ''): the first occurrence of sub removed
RemoveFirst(s, sub) ==
  LET i == FirstIndexOf(s, sub)
  IN  IF i = 0 THEN s ELSE SubSeq(s, 1, i - 1) \o SubSeq(s, i + Len(sub), Len(s))

\* /\s*Financial\s*Report.*/i matches from index i of s
ReportAt(s, i) ==
  LET f == SkipSpaces(s, i)
      r == SkipSpaces(s, f + 9)
  IN  /\ f + 8 <= Len(s)
      /\ toLowerCase(SubSeq(s, f, f + 8)) = "financial"
      /\ r + 5 <= Len(s)
      /\ toLowerCase(SubSeq(s, r, r + 5)) = "report"

\* s.replace(/\s*Financial\s*Report.*/i, ''): s cut at the leftmost match
RemoveReport(s) ==
  LET at == {i \in 1..Len(s) : ReportAt(s, i)}
  IN  IF at = {} THEN s ELSE SubSeq(s, 1, Least(at) - 1)

\* name.match(/^(\d+)/): the leading digits, None when there is none
matchCode(s) == IF LeadingDigits(s) = "" THEN None ELSE LeadingDigits(s)

extractProjectInfo(filename) ==
  LET name == RemoveFirst(filename, "_flat.csv")
      code == matchCode(name)
  IN  IF code # None
      THEN [code |-> code,
            name |-> Trim(RemoveReport(Trim(SubSeq(name, Len(code) + 1, Len(name)))))]
      ELSE [code |-> None, name |-> name]

\* listCsvFiles: name contains '_flat.csv'
listCsvFiles(files) == SelectSeq(files, LAMBDA f : Includes(f, "_flat.csv"))

\* getFolderStructure, for the files of one folder: the entries of projects
getFolderStructure(files) ==
  LET csvFiles == listCsvFiles(files)
      listed == SelectSeq(csvFiles, LAMBDA f : extractProjectInfo(f).code # None)
  IN  [i \in 1..Len(listed) |->
         [code |-> extractProjectInfo(listed[i]).code,
          name |-> extractProjectInfo(listed[i]).name,
          filename |-> listed[i]]]

\* The value of the option the chat page shows for a project
optionValue(p) == p.code \o " - " \o p.name

\* handleProjectSelect: the file of the first project with the label (the
\* projects of one label have one code, and the sort by code keeps their order)
selectedFileOf(availableProjects, projectName) ==
  LET found == FirstIndex(availableProjects, LAMBDA p : optionValue(p) = projectName)
  IN  IF found = 0 THEN "" ELSE availableProjects[found].filename

\* projectLabel of loadProjectData
projectLabel(filename) ==
  LET code == IF matchCode(filename) = None THEN "" ELSE matchCode(filename)
  IN  code \o " - " \o extractProjectInfo(filename).name

\* The rows loadProjectData returns for a file of the given lines
loadProjectData(filename, lines) ==
  [i \in 1..Len(lines) |-> [lines[i] EXCEPT !._project = projectLabel(filename)]]

\* ---------------------------------------------------------------------------
\* A folder of a few files, the listing, a project chosen on the page and its
\* file loaded

FileNames ==
  {"1001 Tower Financial Report 2025_flat.csv", "1001  Tower_flat.csv",
   "2002Bridge_flat.csv", "12_flat.csv3 Quay_flat.csv", "notes_flat.csv"}

FileLines == {<<RowB>>, <<RowB, RowS>>, <<RowS, RowC, RowB>>}

MaxFiles == 2

InitLabel ==
  /\ data = <<>>
  /\ project = None
  /\ question = None
  /\ defaultMonth = "3"
  /\ clockYear = None
  /\ vocab = <<>>
  /\ pc = "drive"
  /\ locals = None
  /\ out = None

\* A file is put into the folder
AddFile ==
  /\ pc = "drive"
  /\ Len(vocab) < MaxFiles
  /\ \E f \in FileNames : ~SeqIncludes(vocab, f) /\ vocab' = Append(vocab, f)
  /\ UNCHANGED <<data, project, question, defaultMonth, clockYear, pc, locals, out>>

\* POST 'getStructure'
GetStructure ==
  /\ pc = "drive"
  /\ locals' = getFolderStructure(vocab)
  /\ pc' = "listed"
  /\ UNCHANGED <<data, project, question, defaultMonth, clockYear, vocab, out>>

\* The user picks an option of the project list
SelectProject ==
  /\ pc = "listed"
  /\ \E k \in 1..Len(locals) :
       /\ project' = optionValue(locals[k])
       /\ out' = selectedFileOf(locals, optionValue(locals[k]))
  /\ pc' = "selected"
  /\ UNCHANGED <<data, question, defaultMonth, clockYear, vocab, locals>>

\* POST 'loadProject' for the selected file
LoadProject ==
  /\ pc = "selected"
  /\ \E lines \in FileLines : data' = loadProjectData(out, lines)
  /\ pc' = "loaded"
  /\ UNCHANGED <<project, question, defaultMonth, clockYear, vocab, locals, out>>

NextLabel == AddFile \/ GetStructure \/ SelectProject \/ LoadProject

SpecLabel == InitLabel /\ [][NextLabel]_vars

\* C29: the label the page sends for a listed project is the label stamped on
\* every record of its file: the filter by project keeps all the records.
C29_PageLabelIsStampedLabel ==
  pc = "loaded"
  => /\ \A i \in 1..Len(data) : data[i]._project = project
     /\ ProjectData(data, project) = data

====
